---------------------------- MODULE Spec2Model ----------------------------
(***************************************************************************)
(* ProtoGalaxy verifier of sirius: the in-circuit verify chip              *)
(* (src/src/ivc/protogalaxy/mod.rs), the off-circuit polynomial engines    *)
(* (src/src/nifs/protogalaxy/poly/mod.rs), the accumulator absorption      *)
(* (src/src/nifs/protogalaxy/accumulator.rs) and the SPS verifier          *)
(* (src/src/sps.rs).                                                       *)
(*                                                                         *)
(* An assigned cell is modelled by the value it holds.  The prime field is *)
(* scaled down to GF(13): 13 - 1 = 4 * 3, so the field has a 2-adic        *)
(* subgroup of order 4 (Lagrange domains of 1, 2 and 4 points) and a       *)
(* primitive cube root of unity (the coset of compute_K_from_G).           *)
(* A Rust panic (assert!, unwrap, expect, itertools zip_eq) is the status  *)
(* "panic" of the value an operation returns.                              *)
(***************************************************************************)
EXTENDS Integers, Sequences, FiniteSets, TLC

VARIABLES
    pc,                 \* position of the caller: "ready", a stage of verify, "done", "panicked"
    call,               \* the last operation invoked, its arguments, the cache length before
    ret,                \* what the last operation returned
    challenge_powers,   \* ValuePowers.powers: the cache x^0, x^1, ... of one value
    poly,               \* the coefficients of an (Assigned)UnivariatePoly
    proof,              \* (Assigned)Proof: poly_F, poly_K
    gamma_powers,       \* ValuePowers of gamma
    alpha_powers,       \* ValuePowers of alpha
    vp,                 \* (Assigned)VerifierParam: pp_digest
    accumulator,        \* (Assigned)AccumulatorInstance: ins, betas, e
    incoming,           \* the incoming (Assigned)PlonkInstances
    ro,                 \* the in-circuit random oracle: what was absorbed and squeezed, in order
    assigned_challenges,\* AssignedChallanges: delta, alpha, gamma
    ro_off,             \* the off-circuit random oracle
    off_challenges,     \* the off-circuit Challenges: delta, alpha, gamma
    poly_challenges,    \* PolyChallenges: betas, alpha, delta
    iter,               \* BetaStrokeIter: cha, beta_index
    yielded,            \* the items the BetaStrokeIter has yielded so far
    betas_stroke,       \* the cells returned by calculate_betas_stroke
    new_e,              \* the cell returned by calculate_e
    ctx,                \* PolyContext: instances_to_fold, fft_points_count_G
    poly_G,             \* the coefficients of G handed to compute_K_from_G
    poly_F_in_alpha,    \* F(alpha) handed to compute_K_from_G
    poly_K_in_X,        \* the samples of K computed so far, one for each coset point
    S,                  \* PlonkStructure: k, gates
    acc_trace,          \* the accumulator's trace: witness W and challenges
    traces              \* the incoming traces

polyVars == <<challenge_powers, poly>>

proofVars == <<proof, gamma_powers, alpha_powers, new_e>>

instanceVars == <<vp, accumulator, incoming>>

roVars == <<ro, assigned_challenges>>

offVars == <<ro_off, off_challenges>>

betaVars == <<poly_challenges, iter, yielded, betas_stroke>>

kVars == <<ctx, poly_G, poly_F_in_alpha, poly_K_in_X>>

traceVars == <<S, acc_trace, traces>>

vars == <<pc, call, ret, polyVars, proofVars, instanceVars, roVars, offVars, betaVars, kVars, traceVars>>

\* the parts of the state a specification does not use stay empty
IdlePoly == challenge_powers = <<>> /\ poly = <<>>

IdleProof == proof = <<>> /\ gamma_powers = <<>> /\ alpha_powers = <<>> /\ new_e = 0

IdleInstance == vp = <<>> /\ accumulator = <<>> /\ incoming = <<>>

IdleRo == ro = <<>> /\ assigned_challenges = <<>>

IdleOff == ro_off = <<>> /\ off_challenges = <<>>

IdleBeta == poly_challenges = <<>> /\ iter = <<>> /\ yielded = <<>> /\ betas_stroke = <<>>

IdleK == ctx = <<>> /\ poly_G = <<>> /\ poly_F_in_alpha = 0 /\ poly_K_in_X = <<>>

IdleTrace == S = <<>> /\ acc_trace = <<>> /\ traces = <<>>

---------------------------------------------------------------------------
(* Bounds of the model *)

\* longest polynomial (coefficient count) drawn as an input
MaxCoeffs == 4

\* largest exponent asked of get_or_eval directly
MaxExp == 5

\* largest number L of incoming instances folded in one step
MaxL == 3

\* most rounds (W_commitments and challenges) of a PlonkInstance
MaxRounds == 2

\* most values in the instance column of a PlonkInstance
MaxIo == 1

\* most betas of an accumulator
MaxBetas == 3

\* most calls of next() after the iterator has ended
MaxPastEnd == 2

\* highest gate degree of a structure
MaxDegree == 2

\* largest value of fft_log_domain_size_K for which compute_K_from_G is run
MaxLogK == 4

\* largest k of a structure: 2^k rows
MaxK == 1

\* most gates of a structure
MaxGates == 2

\* the seeds instances are filled from
SeedSet == {0, 5}

\* the coefficient values polynomials are drawn from
CoeffSet == {0, 1, 5}

---------------------------------------------------------------------------
(* The field F: PrimeField, scaled down *)

\* modulus of the field
FieldP == 13

\* PrimeField::S: the 2-adicity of FieldP - 1
TwoAdicity == 2

\* PrimeField::ROOT_OF_UNITY: an element of order 2^TwoAdicity
ROOT_OF_UNITY == 8

\* WithSmallOrderMulGroup<3>::ZETA: a primitive cube root of unity
ZETA == 3

Field == 0 .. (FieldP - 1)

fadd(a, b) == (a + b) % FieldP

fsub(a, b) == (a - b + FieldP) % FieldP

fmul(a, b) == (a * b) % FieldP

fneg(a) == (FieldP - a) % FieldP

RECURSIVE fpow(_, _)
\* Field::pow: a^n by square and multiply
fpow(a, n) ==
    IF n = 0 THEN 1
    ELSE IF n % 2 = 0 THEN fpow(fmul(a, a), n \div 2)
    ELSE fmul(a, fpow(fmul(a, a), n \div 2))

\* Field::invert: None (here 0 with ok = FALSE) exactly for zero
finvert(a) == [ok |-> a # 0, value |-> fpow(a, FieldP - 2)]

RECURSIVE Pow2(_)
Pow2(n) == IF n = 0 THEN 1 ELSE 2 * Pow2(n - 1)

RECURSIVE ilog2(_)
\* usize::ilog2: floor of the binary logarithm (n >= 1)
ilog2(n) == IF n <= 1 THEN 0 ELSE 1 + ilog2(n \div 2)

\* every n >= 1 taken for a power of two
is_power_of_two_any(n) == n >= 1

\* usize::is_power_of_two
is_power_of_two(n) == n >= 1 /\ Pow2(ilog2(n)) = n

\* usize::next_power_of_two: the smallest power of two >= n (1 for n = 0)
next_power_of_two(n) == IF n <= 1 THEN 1 ELSE IF is_power_of_two(n) THEN n ELSE Pow2(ilog2(n) + 1)

saturating_sub(a, b) == IF a >= b THEN a - b ELSE 0

---------------------------------------------------------------------------
(* MainGate: the arithmetic the chip asks of the main gate *)

mul(a, b) == fmul(a, b)

add(a, b) == fadd(a, b)

add_with_const(a, c) == fadd(a, c)

mul_by_const(a, c) == fmul(a, c)

\* (is_zero flag, inverse); the inverse cell of zero holds 0
invert_with_flag(a) == [is_zero |-> IF a = 0 THEN 1 ELSE 0, inverted |-> finvert(a).value]

is_zero_term(a) == IF a = 0 THEN 1 ELSE 0

\* conditional_select(a, b, cond): a when cond = 1, b when cond = 0
conditional_select(a, b, cond) == IF cond = 1 THEN a ELSE b

---------------------------------------------------------------------------
(* ValuePowers *)

\* ValuePowers::new(one, value): asserts that `one` holds 1
ValuePowers_new(one, value) ==
    IF one # 1 THEN [status |-> "panic", powers |-> <<>>]
    ELSE [status |-> "ok", powers |-> <<one, value>>]

\* ValuePowers::value: powers.get(1)
ValuePowers_value(powers) == powers[2]

RECURSIVE extend_powers_by_last(_, _)
\* the loop pushing last * last
extend_powers_by_last(powers, exp) ==
    IF Len(powers) <= exp
    THEN extend_powers_by_last(Append(powers, mul(powers[Len(powers)], powers[Len(powers)])),
                               exp)
    ELSE powers

RECURSIVE extend_powers(_, _)
\* the while loop of get_or_eval: push value * last while powers.len() <= exp
extend_powers(powers, exp) ==
    IF Len(powers) <= exp
    THEN extend_powers(Append(powers, mul(ValuePowers_value(powers), powers[Len(powers)])), exp)
    ELSE powers

\* ValuePowers::get_or_eval(exp): value from the cache, or the cache extended up to exp.
\* muls counts the main-gate multiplications performed.
get_or_eval(powers, exp) ==
    IF exp < Len(powers)
    THEN [powers |-> powers, value |-> powers[exp + 1], muls |-> 0]
    ELSE LET ext == extend_powers(powers, exp)
         IN [powers |-> ext, value |-> ext[exp + 1], muls |-> Len(ext) - Len(powers)]

---------------------------------------------------------------------------
(* UnivariatePoly and AssignedUnivariatePoly *)

RECURSIVE horner(_, _, _)
\* Horner from the highest index: the value of coeffs[i..] at x, as a polynomial in x
horner(coeffs, x, i) ==
    IF i > Len(coeffs) THEN 0 ELSE fadd(coeffs[i], fmul(x, horner(coeffs, x, i + 1)))

\* UnivariatePoly::eval (off-circuit)
UnivariatePoly_eval(coeffs, x) == horner(coeffs, x, 1)

\* the columns a chunk of eval is assigned to: [state[0], state[2]] and [state[1], state[3]]
coeffs_col_len == 2

\* One row of AssignedUnivariatePoly::eval, the closure of try_fold: `n` is the number of
\* (coeff, power) pairs of the chunk starting at pair k. coeffs.iter().zip_eq(coeffs_col)
\* panics unless the chunk fills both columns.
eval_chunk(prev, coeffs, powers, k, n) ==
    IF n # coeffs_col_len
    THEN [status |-> "panic", value |-> 0]
    ELSE [status |-> "ok",
          value |-> fadd(fadd(prev, fmul(coeffs[k], powers[k])), fmul(coeffs[k + 1], powers[k + 1]))]

RECURSIVE eval_fold(_, _, _, _)
\* self.0.iter().zip_eq(challenge_powers.iter()).chunks(2).try_fold(None, ...): k is the
\* next pair to pull (1-based), prev the output of the previous row ("none" before the first).
\* zip_eq panics when one side ends before the other.
eval_fold(coeffs, powers, k, prev) ==
    LET endC(j) == j > Len(coeffs)
        endP(j) == j > Len(powers)
    IN  IF endC(k) /\ endP(k) THEN prev
        ELSE IF endC(k) \/ endP(k) THEN [status |-> "panic", value |-> 0]
        ELSE IF endC(k + 1) # endP(k + 1) THEN [status |-> "panic", value |-> 0]
        ELSE LET n == IF endC(k + 1) THEN 1 ELSE 2
                 row == eval_chunk(IF prev.status = "none" THEN 0 ELSE prev.value,
                                   coeffs, powers, k, n)
             IN IF row.status = "panic" THEN row
                ELSE eval_fold(coeffs, powers, k + n, row)

\* AssignedUnivariatePoly::eval(challenge_powers): the cache after the call and the result;
\* "err" is Err(Synthesis), the ok_or of an empty fold.
AssignedUnivariatePoly_eval(coeffs, powers) ==
    LET cached == get_or_eval(powers, saturating_sub(Len(coeffs), 1)).powers
        folded == eval_fold(coeffs, cached, 1, [status |-> "none", value |-> 0])
    IN  [powers |-> cached,
         status |-> IF folded.status = "none" THEN "err" ELSE folded.status,
         value |-> folded.value]

---------------------------------------------------------------------------
(* Cyclic subgroups, Lagrange basis and vanishing polynomial *)

\* PolyContext::get_lagrange_domain::<TRACES_LEN>(): asserts TRACES_LEN + 1 is a power of two
get_lagrange_domain(TRACES_LEN) ==
    LET instances_to_fold == TRACES_LEN + 1
    IN  IF ~is_power_of_two(instances_to_fold) THEN [status |-> "panic", value |-> 0]
        ELSE [status |-> "ok", value |-> ilog2(instances_to_fold)]

\* fft::get_omega_or_inv(log_n, false): a generator of the subgroup of order 2^log_n
\* (ROOT_OF_UNITY squared once for every step of log_n .. S)
get_omega(log_n) == fpow(ROOT_OF_UNITY, Pow2(saturating_sub(TwoAdicity, log_n)))

\* lagrange::iter_cyclic_subgroup(log_n): 1, w, w^2, ..., w^(2^log_n - 1)
iter_cyclic_subgroup(log_n) == [j \in 1 .. Pow2(log_n) |-> fpow(get_omega(log_n), j - 1)]

\* lagrange::eval_vanish_polynomial(n, X) (off-circuit): X^n - 1
off_eval_vanish_polynomial(n, X) == fsub(fpow(X, n), 1)

\* lagrange::iter_eval_lagrange_poly_for_cyclic_group(X, log_n), its item `index` (0-based):
\* (w^i / n) * (X^n - 1) / (X - w^i), and 1 when numerator and denominator both vanish
off_eval_lagrange_poly(X, log_n, index) ==
    LET n == Pow2(log_n)
        value == iter_cyclic_subgroup(log_n)[index + 1]
        den == finvert(fsub(X, value))
        num == fsub(fpow(X, n), 1)
    IN  IF num = 0 /\ ~den.ok THEN 1
        ELSE fmul(fmul(value, finvert(n % FieldP).value), fmul(num, den.value))

\* the select of eval_lagrange_poly with its arguments swapped
eval_lagrange_select_swapped(one, fractional, cond) == conditional_select(fractional, one, cond)

\* the last line of eval_lagrange_poly: one when numerator and denominator are both zero
eval_lagrange_select(one, fractional, cond) == conditional_select(one, fractional, cond)

\* eval_lagrange_poly::<F, T, L>(lagrange_index, cha) (in-circuit): the cache after the call
\* and the cell returned
eval_lagrange_poly(L, lagrange_index, cha) ==
    LET lagrange_domain == get_lagrange_domain(L)
        points_count == Pow2(lagrange_domain.value)
    IN  IF lagrange_domain.status = "panic" \/ ~(lagrange_index < points_count)
        THEN [status |-> "panic", value |-> 0, powers |-> cha]
        ELSE
        LET inverted_n == finvert(points_count % FieldP).value
            value == iter_cyclic_subgroup(lagrange_domain.value)[lagrange_index + 1]
            X == ValuePowers_value(cha)
            X_sub_value == add_with_const(X, fneg(value))
            inv == invert_with_flag(X_sub_value)
            pw == get_or_eval(cha, points_count)
            X_pow_n_sub_1 == add_with_const(pw.value, fneg(1))
            is_zero_X_pow_n_sub_1 == is_zero_term(X_pow_n_sub_1)
            is_numerator_denominator_zero == mul(inv.is_zero, is_zero_X_pow_n_sub_1)
            lhs == mul(X_pow_n_sub_1, inv.inverted)
            fractional == mul_by_const(lhs, fmul(value, inverted_n))
            one == get_or_eval(pw.powers, 0)
        IN  [status |-> "ok",
             value |-> eval_lagrange_select(one.value, fractional, is_numerator_denominator_zero),
             powers |-> one.powers]

\* cha^degree + 1: the constant added with the wrong sign
eval_vanish_polynomial_plus_one(degree, cha) ==
    LET cha_in_degree == get_or_eval(cha, degree)
    IN  [value |-> add_with_const(cha_in_degree.value, 1), powers |-> cha_in_degree.powers]

\* eval_vanish_polynomial(degree, cha) (in-circuit): cha^degree - 1
eval_vanish_polynomial(degree, cha) ==
    LET cha_in_degree == get_or_eval(cha, degree)
    IN  [value |-> add_with_const(cha_in_degree.value, fneg(1)), powers |-> cha_in_degree.powers]

---------------------------------------------------------------------------
(* calculate_e *)

\* nifs::protogalaxy::calculate_e(poly_F, poly_K, gamma, alpha, log_n) (off-circuit):
\* F(alpha) * L_0(gamma) + Z(gamma) * K(gamma)
off_calculate_e(poly_F, poly_K, gamma, alpha, log_n) ==
    fadd(fmul(UnivariatePoly_eval(poly_F, alpha), off_eval_lagrange_poly(gamma, log_n, 0)),
         fmul(off_eval_vanish_polynomial(Pow2(log_n), gamma), UnivariatePoly_eval(poly_K, gamma)))

\* calculate_e with the two products added to each other's factors
calculate_e_combine_crossed(poly_F_alpha, poly_L0_in_gamma, poly_Z_gamma, poly_K_gamma) ==
    add(mul(poly_F_alpha, poly_Z_gamma), mul(poly_L0_in_gamma, poly_K_gamma))

\* the last three lines of calculate_e: lhs = F * L0, rhs = Z * K, lhs + rhs
calculate_e_combine(poly_F_alpha, poly_L0_in_gamma, poly_Z_gamma, poly_K_gamma) ==
    add(mul(poly_F_alpha, poly_L0_in_gamma), mul(poly_Z_gamma, poly_K_gamma))

\* calculate_e::<F, T, L>(proof, gamma_cha, alpha_cha) (in-circuit): the two caches after
\* the call and the cell returned. A panic of a callee ends the call.
calculate_e(L, prf, gamma_cha, alpha_cha) ==
    LET lagrange_domain == get_lagrange_domain(L)
        panicked(g, a) == [status |-> "panic", value |-> 0, gamma_powers |-> g, alpha_powers |-> a]
    IN  IF lagrange_domain.status = "panic" THEN panicked(gamma_cha, alpha_cha)
        ELSE
        LET poly_L0_in_gamma == eval_lagrange_poly(L, 0, gamma_cha)
            poly_F_alpha == AssignedUnivariatePoly_eval(prf.poly_F, alpha_cha)
        IN  IF poly_F_alpha.status # "ok"
            THEN [status |-> poly_F_alpha.status, value |-> 0,
                  gamma_powers |-> poly_L0_in_gamma.powers, alpha_powers |-> poly_F_alpha.powers]
            ELSE
            LET poly_Z_gamma == eval_vanish_polynomial(Pow2(lagrange_domain.value),
                                                       poly_L0_in_gamma.powers)
                poly_K_gamma == AssignedUnivariatePoly_eval(prf.poly_K, poly_Z_gamma.powers)
            IN  IF poly_K_gamma.status # "ok"
                THEN [status |-> poly_K_gamma.status, value |-> 0,
                      gamma_powers |-> poly_K_gamma.powers, alpha_powers |-> poly_F_alpha.powers]
                ELSE [status |-> "ok",
                      value |-> calculate_e_combine(poly_F_alpha.value, poly_L0_in_gamma.value,
                                                    poly_Z_gamma.value, poly_K_gamma.value),
                      gamma_powers |-> poly_K_gamma.powers,
                      alpha_powers |-> poly_F_alpha.powers]

---------------------------------------------------------------------------
(* The random oracle: RO (off-circuit) and ROCircuit (in-circuit) *)

\* The oracle is modelled by its transcript: every item absorbed and every squeeze, in
\* order. A squeeze returns a value determined by the transcript before it.
PointItem(p) == [kind |-> "point", v |-> p]

FieldItem(x) == [kind |-> "fe", v |-> x]

SqueezeItem == [kind |-> "squeeze", v |-> 0]

ro_code(item) ==
    CASE item.kind = "point" -> 2 * item.v + 1
      [] item.kind = "fe" -> 2 * item.v + 2
      [] OTHER -> 0

RECURSIVE ro_permute(_, _, _)
\* the map h -> a * h + b that the items lo .. hi of a transcript apply to the sponge
\* state, one item applying h -> 5 * h + code + 3; the maps of the two halves composed
ro_permute(transcript, lo, hi) ==
    IF lo > hi THEN [a |-> 1, b |-> 0]
    ELSE IF lo = hi THEN [a |-> 5, b |-> (ro_code(transcript[lo]) + 3) % FieldP]
    ELSE LET mid == (lo + hi) \div 2
             l == ro_permute(transcript, lo, mid)
             r == ro_permute(transcript, mid + 1, hi)
         IN  [a |-> (r.a * l.a) % FieldP, b |-> (r.a * l.b + r.b) % FieldP]

\* the sponge state after the first n items of a transcript, from the state 1
ro_digest(transcript, n) ==
    LET m == ro_permute(transcript, 1, n) IN (m.a + m.b) % FieldP

\* absorb_point: one curve point
absorb_point(transcript, p) == Append(transcript, PointItem(p))

\* absorb_iter / absorb_field_iter: the items in order
absorb_iter(transcript, items) == transcript \o items

\* squeeze: the transcript afterwards and the challenge
squeeze(transcript) ==
    [ro |-> Append(transcript, SqueezeItem), value |-> ro_digest(transcript, Len(transcript))]

RECURSIVE le_bits(_, _)
\* PrimeField::to_repr: n little-endian bits of x
le_bits(x, n) == IF n = 0 THEN <<>> ELSE <<x % 2>> \o le_bits(x \div 2, n - 1)

RECURSIVE from_le_bits(_, _)
from_le_bits(bits, i) == IF i > Len(bits) THEN 0 ELSE bits[i] + 2 * from_le_bits(bits, i + 1)

\* width of the canonical representation of a field element, in bits
ReprBits == 4

\* util::fe_to_fe / ScalarToBase::scalar_to_base: the element of the other field with the
\* same canonical little-endian representation; None when that is not below the modulus
fe_to_fe(x) ==
    LET v == from_le_bits(le_bits(x, ReprBits), 1)
    IN  [ok |-> v < FieldP, value |-> v]

\* a sequence flattened: Iterator::flat_map
RECURSIVE Flatten(_)
Flatten(seqs) == IF seqs = <<>> THEN <<>> ELSE Head(seqs) \o Flatten(Tail(seqs))

FieldItems(values) == [i \in 1 .. Len(values) |-> FieldItem(values[i])]

---------------------------------------------------------------------------
(* PlonkInstance, AccumulatorInstance and their assigned versions *)

\* AssignedPlonkInstance::assign: W_commitments as points, instances and challenges through
\* scalar_to_base
AssignedPlonkInstance_assign(pi) ==
    [W_commitments |-> pi.W_commitments,
     instances |-> [c \in 1 .. Len(pi.instances) |->
                       [k \in 1 .. Len(pi.instances[c]) |-> fe_to_fe(pi.instances[c][k]).value]],
     challenges |-> [r \in 1 .. Len(pi.challenges) |-> fe_to_fe(pi.challenges[r]).value]]

\* AssignedAccumulatorInstance::assign
AssignedAccumulatorInstance_assign(acc) ==
    [ins |-> AssignedPlonkInstance_assign(acc.ins),
     betas |-> [i \in 1 .. Len(acc.betas) |-> fe_to_fe(acc.betas[i]).value],
     e |-> fe_to_fe(acc.e).value]

\* AssignedPlonkInstance::iter_wrap_value: W_commitments, instances, challenges
AssignedPlonkInstance_iter_wrap_value(ins) ==
    [i \in 1 .. Len(ins.W_commitments) |-> PointItem(ins.W_commitments[i])]
        \o FieldItems(Flatten(ins.instances))
        \o FieldItems(ins.challenges)

\* iter_wrap_value of the accumulator with e ahead of the betas
AssignedAccumulatorInstance_iter_wrap_value_e_first(acc) ==
    AssignedPlonkInstance_iter_wrap_value(acc.ins)
        \o <<FieldItem(acc.e)>>
        \o FieldItems(acc.betas)

\* AssignedAccumulatorInstance::iter_wrap_value: ins, betas, e
AssignedAccumulatorInstance_iter_wrap_value(acc) ==
    AssignedPlonkInstance_iter_wrap_value(acc.ins)
        \o FieldItems(acc.betas)
        \o <<FieldItem(acc.e)>>

\* AbsorbInRO for PlonkInstance: W_commitments, instance values as base-field elements,
\* challenges
PlonkInstance_absorb_into(pi, transcript) ==
    absorb_iter(
        absorb_iter(
            absorb_iter(transcript,
                        [i \in 1 .. Len(pi.W_commitments) |-> PointItem(pi.W_commitments[i])]),
            FieldItems([i \in 1 .. Len(Flatten(pi.instances)) |->
                           fe_to_fe(Flatten(pi.instances)[i]).value])),
        FieldItems([r \in 1 .. Len(pi.challenges) |-> fe_to_fe(pi.challenges[r]).value]))

\* AbsorbInRO for AccumulatorInstance: ins, then betas chained with e through fe_to_fe
AccumulatorInstance_absorb_into(acc, transcript) ==
    LET betas_then_e == acc.betas \o <<acc.e>>
    IN  absorb_iter(PlonkInstance_absorb_into(acc.ins, transcript),
                    FieldItems([i \in 1 .. Len(betas_then_e) |-> fe_to_fe(betas_then_e[i]).value]))

---------------------------------------------------------------------------
(* Challenge generation *)

\* generate with delta squeezed before the incoming instances are absorbed
AssignedChallanges_generate_delta_early(transcript, avp, acc, inc, prf) ==
    LET d == squeeze(
                 absorb_iter(absorb_point(transcript, avp.pp_digest),
                             AssignedAccumulatorInstance_iter_wrap_value(acc)))
        a == squeeze(
                 absorb_iter(
                     absorb_iter(d.ro,
                         Flatten([j \in 1 .. Len(inc) |->
                                     AssignedPlonkInstance_iter_wrap_value(inc[j])])),
                     FieldItems(prf.poly_F)))
        g == squeeze(absorb_iter(a.ro, FieldItems(prf.poly_K)))
    IN  [ro |-> g.ro, delta |-> d.value, alpha |-> a.value, gamma |-> g.value]

\* the challenges with delta squeezed last, after poly_F and poly_K are absorbed
AssignedChallanges_generate_delta_last(transcript, avp, acc, inc, prf) ==
    LET seeded == absorb_iter(
                      absorb_iter(absorb_point(transcript, avp.pp_digest),
                                  AssignedAccumulatorInstance_iter_wrap_value(acc)),
                      Flatten([j \in 1 .. Len(inc) |->
                                  AssignedPlonkInstance_iter_wrap_value(inc[j])]))
        a == squeeze(absorb_iter(seeded, FieldItems(prf.poly_F)))
        g == squeeze(absorb_iter(a.ro, FieldItems(prf.poly_K)))
        d == squeeze(g.ro)
    IN  [ro |-> d.ro, delta |-> d.value, alpha |-> a.value, gamma |-> g.value]

\* AssignedChallanges::generate (in-circuit): the oracle afterwards and (delta, alpha, gamma)
AssignedChallanges_generate(transcript, avp, acc, inc, prf) ==
    LET d == squeeze(
                 absorb_iter(
                     absorb_iter(absorb_point(transcript, avp.pp_digest),
                                 AssignedAccumulatorInstance_iter_wrap_value(acc)),
                     Flatten([j \in 1 .. Len(inc) |->
                                 AssignedPlonkInstance_iter_wrap_value(inc[j])])))
        a == squeeze(absorb_iter(d.ro, FieldItems(prf.poly_F)))
        g == squeeze(absorb_iter(a.ro, FieldItems(prf.poly_K)))
    IN  [ro |-> g.ro, delta |-> d.value, alpha |-> a.value, gamma |-> g.value]

RECURSIVE absorb_instances(_, _, _)
\* the incoming instances absorbed in order, from instance j on
absorb_instances(transcript, inc, j) ==
    IF j > Len(inc) THEN transcript
    ELSE absorb_instances(PlonkInstance_absorb_into(inc[j], transcript), inc, j + 1)

\* nifs::protogalaxy::Challenges::generate (off-circuit), by the canonical absorption order:
\* pp_digest, accumulator, delta; incoming instances, poly_F, alpha; poly_K, gamma
Challenges_generate(params, transcript, acc, inc, prf) ==
    LET d == squeeze(AccumulatorInstance_absorb_into(acc, absorb_point(transcript, params.pp_digest)))
        a == squeeze(
                 absorb_iter(absorb_instances(d.ro, inc, 1),
                             FieldItems([i \in 1 .. Len(prf.poly_F) |->
                                            fe_to_fe(prf.poly_F[i]).value])))
        g == squeeze(
                 absorb_iter(a.ro,
                             FieldItems([i \in 1 .. Len(prf.poly_K) |->
                                            fe_to_fe(prf.poly_K[i]).value])))
    IN  [ro |-> g.ro, delta |-> d.value, alpha |-> a.value, gamma |-> g.value]

---------------------------------------------------------------------------
(* beta-stroke: PolyChallenges, BetaStrokeIter, calculate_betas_stroke *)

None == [some |-> FALSE, value |-> 0]

Some(v) == [some |-> TRUE, value |-> v]

\* PolyChallenges::iter_beta_stroke
iter_beta_stroke(cha) == [cha |-> cha, beta_index |-> 0]

\* next() that leaves delta as it is
BetaStrokeIter_next_delta_kept(it) ==
    IF it.beta_index >= Len(it.cha.betas) THEN [iter |-> it, item |-> None]
    ELSE [iter |-> [it EXCEPT !.beta_index = @ + 1],
          item |-> Some(fadd(it.cha.betas[it.beta_index + 1],
                             fmul(it.cha.alpha, it.cha.delta)))]

\* BetaStrokeIter::next: the iterator afterwards and the item; betas.get(beta_index)? returns
\* None before anything is changed
BetaStrokeIter_next(it) ==
    IF it.beta_index >= Len(it.cha.betas) THEN [iter |-> it, item |-> None]
    ELSE [iter |-> [it EXCEPT !.beta_index = @ + 1,
                              !.cha.delta = fmul(it.cha.delta, it.cha.delta)],
          item |-> Some(fadd(it.cha.betas[it.beta_index + 1],
                             fmul(it.cha.alpha, it.cha.delta)))]

RECURSIVE collect(_)
\* Iterator::collect: next() until it returns None
collect(it) ==
    LET r == BetaStrokeIter_next(it)
    IN  IF r.item.some THEN <<r.item.value>> \o collect(r.iter) ELSE <<>>

RECURSIVE successors_by_value(_, _, _)
\* v, v*v, (v*v)*v, ...: each element the previous one times v
successors_by_value(v, prev, len) ==
    IF len = 0 THEN <<>> ELSE <<prev>> \o successors_by_value(v, mul(prev, v), len - 1)

\* len elements with every successor the previous element times the value
calculate_exponentiation_sequence_by_value(value, len) == successors_by_value(value, value, len)

RECURSIVE successors(_, _)
\* iter::successors(Some(Ok(value)), |prev| Some(main_gate.mul(prev, prev))).take(len)
successors(prev, len) ==
    IF len = 0 THEN <<>> ELSE <<prev>> \o successors(mul(prev, prev), len - 1)

\* calculate_exponentiation_sequence: v, v^2, v^4, v^8, ...
calculate_exponentiation_sequence(value, len) == successors(value, len)

\* calculate_betas_stroke: betas zip_eq deltas, one mul and one add per beta
calculate_betas_stroke(cha) ==
    LET deltas == calculate_exponentiation_sequence(cha.delta, Len(cha.betas))
    IN  IF Len(deltas) # Len(cha.betas) THEN [status |-> "panic", value |-> <<>>]
        ELSE [status |-> "ok",
              value |-> [i \in 1 .. Len(cha.betas) |->
                            add(cha.betas[i], mul(cha.alpha, deltas[i]))]]

---------------------------------------------------------------------------
(* fold_instances *)

\* the W_commitments of the first incoming instance, when there is one
new_acc_W_commitments_of_incoming(acc, inc) ==
    IF Len(inc) = 0 THEN acc.W_commitments ELSE inc[1].W_commitments

\* W_commitments: acc.W_commitments.clone() - not folded here
new_acc_W_commitments(acc, inc) == acc.W_commitments

\* the basis index of an incoming instance taken as its position
fold_lagrange_index_of_position(index) == index

\* the basis element of incoming[index]: eval_lagrange_poly(index + 1)
fold_lagrange_index(index) == index + 1

\* the shapes zip_eq accepts: as many columns, as many values in each, as many challenges
same_shape(a, b) ==
    /\ Len(a.instances) = Len(b.instances)
    /\ \A c \in 1 .. Len(a.instances) : Len(a.instances[c]) = Len(b.instances[c])
    /\ Len(a.challenges) = Len(b.challenges)

RECURSIVE fold_incoming(_, _, _, _, _)
\* try_fold over incoming.iter().enumerate(): the running instance plus tr * l_n, from
\* incoming[index] on (index 0-based)
fold_incoming(L, acc, inc, index, gamma_cha) ==
    IF index >= Len(inc) THEN [status |-> "ok", value |-> acc, powers |-> gamma_cha]
    ELSE
    LET l_n == eval_lagrange_poly(L, fold_lagrange_index(index), gamma_cha)
        tr == inc[index + 1]
    IN  IF l_n.status = "panic" \/ ~same_shape(acc, tr)
        THEN [status |-> "panic", value |-> acc, powers |-> l_n.powers]
        ELSE fold_incoming(L,
                 [acc EXCEPT
                     !.instances = [c \in 1 .. Len(acc.instances) |->
                                       [k \in 1 .. Len(acc.instances[c]) |->
                                           add(acc.instances[c][k],
                                               mul(tr.instances[c][k], l_n.value))]],
                     !.challenges = [r \in 1 .. Len(acc.challenges) |->
                                        add(acc.challenges[r],
                                            mul(tr.challenges[r], l_n.value))]],
                 inc, index + 1, l_n.powers)

\* the fold started from the accumulator's cells as they are, not scaled by l_0
fold_instances_acc_unscaled(L, acc, inc, gamma_cha) ==
    LET l_0 == eval_lagrange_poly(L, 0, gamma_cha)
    IN  IF l_0.status = "panic" THEN [status |-> "panic", value |-> acc, powers |-> l_0.powers]
        ELSE fold_incoming(L,
                 [W_commitments |-> new_acc_W_commitments(acc, inc),
                  instances |-> acc.instances,
                  challenges |-> acc.challenges],
                 inc, 0, l_0.powers)

\* fold_instances::<C, T, L>(acc, incoming, gamma_cha): the folded instance and the cache
fold_instances(L, acc, inc, gamma_cha) ==
    LET l_0 == eval_lagrange_poly(L, 0, gamma_cha)
    IN  IF l_0.status = "panic" THEN [status |-> "panic", value |-> acc, powers |-> l_0.powers]
        ELSE fold_incoming(L,
                 [W_commitments |-> new_acc_W_commitments(acc, inc),
                  instances |-> [c \in 1 .. Len(acc.instances) |->
                                    [k \in 1 .. Len(acc.instances[c]) |->
                                        mul(acc.instances[c][k], l_0.value)]],
                  challenges |-> [r \in 1 .. Len(acc.challenges) |->
                                     mul(acc.challenges[r], l_0.value)]],
                 inc, 0, l_0.powers)

---------------------------------------------------------------------------
(* PolyContext and compute_K_from_G *)

\* get_points_count(S, traces_len), max_degree the highest degree of the gates of S
get_points_count(max_degree, traces_len) == next_power_of_two(traces_len * max_degree + 1)

\* PolyContext::new(S, traces): asserts that traces.len() + 1 is a power of two
PolyContext_new(max_degree, traces_len) ==
    [status |-> IF is_power_of_two(traces_len + 1) THEN "ok" ELSE "panic",
     instances_to_fold |-> traces_len + 1,
     fft_points_count_G |-> get_points_count(max_degree, traces_len)]

\* PolyContext::lagrange_domain
lagrange_domain(c) == ilog2(c.instances_to_fold)

\* PolyContext::fft_log_domain_size_K
fft_log_domain_size_K(c) ==
    next_power_of_two(saturating_sub(c.fft_points_count_G + 1, c.instances_to_fold))

\* the sample point left in the cyclic subgroup
coset_point_in_subgroup(X) == X

\* .map(|X| F::ZETA * X): the point of the coset
coset_point(X) == fmul(ZETA, X)

\* the closure of compute_K_from_G at the subgroup element X0: K(X) for X = ZETA * X0; the
\* expect and the assert_eq panic
K_in_X(c, G, F_in_alpha, X0) ==
    LET X == coset_point(X0)
        poly_G_in_X == UnivariatePoly_eval(G, X)
        poly_L0_in_X == off_eval_lagrange_poly(X, lagrange_domain(c), 0)
        poly_Z_in_X == off_eval_vanish_polynomial(c.instances_to_fold, X)
        inverted == finvert(poly_Z_in_X)
        poly_K_X == fmul(fsub(poly_G_in_X, fmul(F_in_alpha, poly_L0_in_X)), inverted.value)
    IN  IF ~inverted.ok THEN [status |-> "panic", value |-> 0]
        ELSE IF fadd(fmul(F_in_alpha, poly_L0_in_X), fmul(poly_Z_in_X, poly_K_X)) # poly_G_in_X
        THEN [status |-> "panic", value |-> 0]
        ELSE [status |-> "ok", value |-> poly_K_X]

RECURSIVE ifft_coeff(_, _, _, _)
\* sum over j <= m of evals[j] * w^(-(i * (j - 1))), w_inv the inverse of the generator
ifft_coeff(evals, w_inv, i, m) ==
    IF m = 0 THEN 0
    ELSE fadd(ifft_coeff(evals, w_inv, i, m - 1), fmul(evals[m], fpow(w_inv, i * (m - 1))))

\* UnivariatePoly::coset_ifft: the inverse transform over the subgroup of Len(evals) points,
\* coefficient i then multiplied by ZETA^(-i)
coset_ifft(evals, log_n) ==
    LET n == Len(evals)
        w_inv == finvert(get_omega(log_n)).value
        n_inv == finvert(n % FieldP).value
        zeta_inv == finvert(ZETA).value
    IN  [i \in 1 .. n |->
            fmul(fpow(zeta_inv, i - 1), fmul(n_inv, ifft_coeff(evals, w_inv, i - 1, n)))]

---------------------------------------------------------------------------
(* PlonkStructure, traces and the evaluation of gates *)

\* A gate over the two advice cells (a, b) of a row: a^degree - b, or, with the challenge of
\* the round, challenge * a^(degree - 1) - b. Both have the degree `degree`.
gate_eval(gate, row, challenges) ==
    fsub(IF gate.with_challenge
         THEN fmul(challenges[1], fpow(row[1], gate.degree - 1))
         ELSE fpow(row[1], gate.degree),
         row[2])

\* plonk::iter_evaluate_witness(S, trace): every gate of every row, row after row
iter_evaluate_witness(structure, trace) ==
    LET gates == Len(structure.gates)
    IN  [i \in 1 .. Pow2(structure.k) * gates |->
            gate_eval(structure.gates[((i - 1) % gates) + 1],
                      trace.W[((i - 1) \div gates) + 1],
                      trace.challenges)]

\* .chain(iter::repeat(Ok(F::ZERO))).take(count)
chain_zero_take(evals, count) == [i \in 1 .. count |-> IF i <= Len(evals) THEN evals[i] ELSE 0]

\* get_count_of_valuation(S): NonZeroUsize::new(rows * gates)
get_count_of_valuation(structure) ==
    LET count == Pow2(structure.k) * Len(structure.gates)
    IN  IF count = 0 THEN None ELSE Some(count)

\* get_count_of_valuation_with_padding(S)
get_count_of_valuation_with_padding(structure) ==
    LET count == get_count_of_valuation(structure)
    IN  IF count.some THEN Some(next_power_of_two(count.value)) ELSE None

RECURSIVE max_degree_from(_, _)
\* S.gates.iter().map(|poly| poly.degree(&ctx)).max().unwrap_or_default()
max_degree_from(gates, i) ==
    IF i > Len(gates) THEN 0
    ELSE LET rest == max_degree_from(gates, i + 1)
         IN  IF gates[i].degree > rest THEN gates[i].degree ELSE rest

max_gate_degree(structure) == max_degree_from(structure.gates, 1)

\* PolyContext::betas_count: count_of_evaluation_with_padding.ilog2()
betas_count(structure) == ilog2(get_count_of_valuation_with_padding(structure).value)

\* PolyContext::fft_points_count_F
fft_points_count_F(structure) == next_power_of_two(betas_count(structure) + 1)

\* PolyContext::fft_log_domain_size_G
fft_log_domain_size_G(c) == ilog2(c.fft_points_count_G)

\* fft::ifft: the coefficients of the polynomial with the values `points` on the cyclic
\* subgroup of Len(points) points
ifft(points) ==
    LET n == Len(points)
        w_inv == finvert(get_omega(ilog2(n))).value
        n_inv == finvert(n % FieldP).value
    IN  [i \in 1 .. n |-> fmul(n_inv, ifft_coeff(points, w_inv, i - 1, n))]

\* Iterator::take(n) on an iterator of Len(items) items
take(items, n) == [i \in 1 .. (IF n < Len(items) THEN n ELSE Len(items)) |-> items[i]]

RECURSIVE successors_pow2(_, _)
\* iter::successors(Some(delta), |d| Some(d.pow([2]))).take(len)
successors_pow2(d, len) ==
    IF len = 0 THEN <<>> ELSE <<d>> \o successors_pow2(fpow(d, 2), len - 1)

---------------------------------------------------------------------------
(* compute_F *)

\* a leaf that holds the evaluation plus one
Leaf_plus_one(value) ==
    [status |-> "ok", leaf |-> TRUE, value |-> fadd(value, 1), points |-> <<>>, height |-> 0]

\* Node::Leaf(value)
Leaf(value) == [status |-> "ok", leaf |-> TRUE, value |-> value, points |-> <<>>, height |-> 0]

Calculated(points, height) ==
    [status |-> "ok", leaf |-> FALSE, value |-> 0, points |-> points, height |-> height]

Unreachable == [status |-> "panic", leaf |-> FALSE, value |-> 0, points |-> <<>>, height |-> 0]

\* the closure of tree_reduce in compute_F: two leaves give the points
\* left + right * challenge_powers[0]; two calculated nodes of one height h give
\* left + right * challenge_powers[h]; anything else is unreachable!
combine_F(challenges_powers, left_w, right_w) ==
    IF left_w.status = "panic" \/ right_w.status = "panic" THEN Unreachable
    ELSE IF left_w.leaf /\ right_w.leaf
    THEN Calculated([x \in 1 .. Len(challenges_powers) |->
                        fadd(left_w.value, fmul(right_w.value, challenges_powers[x][1]))],
                    1)
    ELSE IF ~left_w.leaf /\ ~right_w.leaf /\ left_w.height = right_w.height
    THEN Calculated([x \in 1 .. Len(challenges_powers) |->
                        fadd(left_w.points[x],
                             fmul(right_w.points[x], challenges_powers[x][left_w.height + 1]))],
                    left_w.height + 1)
    ELSE Unreachable

RECURSIVE tree_reduce_F_chain(_, _, _, _)
\* the reduction as a chain: the first leaf combined with the reduction of the others
tree_reduce_F_chain(challenges_powers, leaves, lo, hi) ==
    IF lo = hi THEN Leaf(leaves[lo])
    ELSE combine_F(challenges_powers, Leaf(leaves[lo]),
                   tree_reduce_F_chain(challenges_powers, leaves, lo + 1, hi))

RECURSIVE tree_reduce_F(_, _, _, _)
\* Itertools::tree_reduce over the leaves lo .. hi (a power of two of them): the balanced
\* binary tree, left to right
tree_reduce_F(challenges_powers, leaves, lo, hi) ==
    IF lo = hi THEN Leaf(leaves[lo])
    ELSE LET mid == lo + ((hi - lo + 1) \div 2)
         IN  combine_F(challenges_powers,
                       tree_reduce_F(challenges_powers, leaves, lo, mid - 1),
                       tree_reduce_F(challenges_powers, leaves, mid, hi))

\* compute_F(ctx, betas, delta, trace): Ok(poly), or a panic of an assert or unreachable!;
\* `height` is the height of the node the reduction ended with
compute_F(structure, betas_iter, delta, trace) ==
    LET count_of_evaluation == get_count_of_valuation_with_padding(structure)
    IN  IF ~count_of_evaluation.some THEN [status |-> "ok", value |-> <<>>, height |-> 0]
        ELSE
        LET betas == take(betas_iter, betas_count(structure))
            deltas == successors_pow2(delta, betas_count(structure))
            domain == iter_cyclic_subgroup(ilog2(fft_points_count_F(structure)))
            challenges_powers ==
                [x \in 1 .. Len(domain) |->
                    [j \in 1 .. Len(betas) |-> fadd(betas[j], fmul(domain[x], deltas[j]))]]
            leaves == chain_zero_take(iter_evaluate_witness(structure, trace),
                                      count_of_evaluation.value)
            evaluated == tree_reduce_F(challenges_powers, leaves, 1, Len(leaves))
        IN  IF Len(betas) # betas_count(structure)
            THEN [status |-> "panic", value |-> <<>>, height |-> 0]
            ELSE IF evaluated.status = "panic" \/ evaluated.leaf
            THEN [status |-> "panic", value |-> <<>>, height |-> 0]
            ELSE [status |-> "ok", value |-> ifft(evaluated.points),
                  height |-> evaluated.height]

---------------------------------------------------------------------------
(* FoldedWitness and compute_G, compute_K *)

RECURSIVE lagrange_sum(_, _, _)
\* sum over the first m traces (the accumulator is trace 0) of L_j(X) * cells[j], the cell
\* of trace j
lagrange_sum(coeffs, cells, m) ==
    IF m = 0 THEN 0
    ELSE fadd(lagrange_sum(coeffs, cells, m - 1), fmul(coeffs[m], cells[m]))

\* the folded trace with every trace weighted by L_0(X)
FoldedWitness_all_L0(X, log_n, accumulator_trace, incoming_traces) ==
    LET all == <<accumulator_trace>> \o incoming_traces
        coeffs == [j \in 1 .. Len(all) |-> off_eval_lagrange_poly(X, log_n, 0)]
    IN  [W |-> [r \in 1 .. Len(accumulator_trace.W) |->
                   [col \in 1 .. Len(accumulator_trace.W[r]) |->
                       lagrange_sum(coeffs, [j \in 1 .. Len(all) |-> all[j].W[r][col]], Len(all))]],
         challenges |-> [ch \in 1 .. Len(accumulator_trace.challenges) |->
                            lagrange_sum(coeffs, [j \in 1 .. Len(all) |-> all[j].challenges[ch]], Len(all))]]

\* FoldedWitness::new(points, lagrange_domain, accumulator, traces), its item for the point
\* X: the trace whose cells and challenges are sum_j L_j(X) * (cell of trace j)
FoldedWitness(X, log_n, accumulator_trace, incoming_traces) ==
    LET all == <<accumulator_trace>> \o incoming_traces
        coeffs == [j \in 1 .. Len(all) |-> off_eval_lagrange_poly(X, log_n, j - 1)]
    IN  [W |-> [r \in 1 .. Len(accumulator_trace.W) |->
                   [col \in 1 .. Len(accumulator_trace.W[r]) |->
                       lagrange_sum(coeffs, [j \in 1 .. Len(all) |-> all[j].W[r][col]], Len(all))]],
         challenges |-> [ch \in 1 .. Len(accumulator_trace.challenges) |->
                            lagrange_sum(coeffs, [j \in 1 .. Len(all) |-> all[j].challenges[ch]], Len(all))]]

\* a node of compute_G: the values of the node at every point, and its height
Node(values, height) == [status |-> "ok", values |-> values, height |-> height]

\* the closure with the node of the right scaled by one and the left by betas_stroke
combine_G_swapped(stroke, left, right) ==
    IF left.status = "panic" \/ right.status = "panic" \/ left.height # right.height
    THEN [status |-> "panic", values |-> <<>>, height |-> 0]
    ELSE Node([x \in 1 .. Len(left.values) |->
                  fadd(fmul(left.values[x], stroke[left.height + 1]), right.values[x])],
              left.height + 1)

\* the closure of tree_reduce in compute_G: left += right * betas_stroke[l_height] for nodes of
\* one height, unreachable! otherwise
combine_G(stroke, left, right) ==
    IF left.status = "panic" \/ right.status = "panic" \/ left.height # right.height
    THEN [status |-> "panic", values |-> <<>>, height |-> 0]
    ELSE Node([x \in 1 .. Len(left.values) |->
                  fadd(left.values[x], fmul(right.values[x], stroke[left.height + 1]))],
              left.height + 1)

RECURSIVE tree_reduce_G(_, _, _, _)
\* Itertools::tree_reduce over the nodes lo .. hi (a power of two of them)
tree_reduce_G(stroke, nodes, lo, hi) ==
    IF lo = hi THEN nodes[lo]
    ELSE LET mid == lo + ((hi - lo + 1) \div 2)
         IN  combine_G(stroke, tree_reduce_G(stroke, nodes, lo, mid - 1),
                       tree_reduce_G(stroke, nodes, mid, hi))

\* a slice that is never found empty
is_empty_never(items) == FALSE

\* traces.is_empty()
is_empty(items) == Len(items) = 0

\* compute_G(ctx, betas_stroke, accumulator, traces): Err(EmptyTracesNotAllowed), Ok(poly) or a
\* panic; `consumed` counts the items taken from the betas_stroke iterator, `evaluated`
\* the folded witnesses handed to iter_evaluate_witness, and `height` is the height of the
\* node the reduction ended with
compute_G(structure, c, betas_stroke_iter, accumulator_trace, incoming_traces) ==
    IF is_empty(incoming_traces)
    THEN [status |-> "Err", value |-> "EmptyTracesNotAllowed", consumed |-> 0, evaluated |-> 0,
          height |-> 0]
    ELSE
    LET stroke == take(betas_stroke_iter, betas_count(structure))
        points_for_fft == take(iter_cyclic_subgroup(fft_log_domain_size_G(c)),
                               c.fft_points_count_G)
        count == get_count_of_valuation_with_padding(structure).value
        per_X == [x \in 1 .. Len(points_for_fft) |->
                     chain_zero_take(
                         iter_evaluate_witness(structure,
                             FoldedWitness(points_for_fft[x], lagrange_domain(c),
                                           accumulator_trace, incoming_traces)),
                         count)]
        \* try_multi_product: item i holds evaluation i at every point
        nodes == [i \in 1 .. count |-> Node([x \in 1 .. Len(per_X) |-> per_X[x][i]], 0)]
        evaluated == tree_reduce_G(stroke, nodes, 1, count)
    IN  IF Len(stroke) # betas_count(structure)
        THEN [status |-> "panic", value |-> <<>>, consumed |-> Len(stroke), evaluated |-> 0,
              height |-> 0]
        ELSE IF evaluated.status = "panic"
        THEN [status |-> "panic", value |-> <<>>, consumed |-> Len(stroke),
              evaluated |-> Len(points_for_fft), height |-> 0]
        ELSE [status |-> "ok", value |-> ifft(evaluated.values), consumed |-> Len(stroke),
              evaluated |-> Len(points_for_fft), height |-> evaluated.height]

\* compute_K_from_G(ctx, poly_G, poly_F_in_alpha): the samples on the coset, then coset_ifft
compute_K_from_G(c, G, F_in_alpha) ==
    LET log_n == fft_log_domain_size_K(c)
        domain == iter_cyclic_subgroup(log_n)
        samples == [x \in 1 .. Len(domain) |-> K_in_X(c, G, F_in_alpha, domain[x])]
    IN  IF \E x \in 1 .. Len(domain) : samples[x].status = "panic"
        THEN [status |-> "panic", value |-> <<>>]
        ELSE [status |-> "ok",
              value |-> coset_ifft([x \in 1 .. Len(domain) |-> samples[x].value], log_n)]

\* compute_K(ctx, poly_F_in_alpha, betas_stroke, accumulator, traces): compute_G(..)? and
\* then compute_K_from_G
compute_K(structure, c, F_in_alpha, betas_stroke_iter, accumulator_trace, incoming_traces) ==
    LET G == compute_G(structure, c, betas_stroke_iter, accumulator_trace, incoming_traces)
        K == compute_K_from_G(c, G.value, F_in_alpha)
    IN  IF G.status # "ok" THEN G
        ELSE [status |-> K.status, value |-> K.value, consumed |-> G.consumed,
              evaluated |-> G.evaluated, height |-> G.height]

---------------------------------------------------------------------------
(* sps_verify *)

\* constants::NUM_CHALLENGE_BITS, scaled down with the modulus: fewer bits than an element
NUM_CHALLENGE_BITS == 3

\* a squeeze that returns the whole element
squeeze_bits_full(transcript, num_bits) ==
    [ro |-> Append(transcript, SqueezeItem), value |-> ro_digest(transcript, Len(transcript))]

\* ROTrait::squeeze::<C>(num_bits): the transcript afterwards and the scalar made of the
\* num_bits low bits of the sponge output
squeeze_bits(transcript, num_bits) ==
    [ro |-> Append(transcript, SqueezeItem),
     value |-> from_le_bits(take(le_bits(ro_digest(transcript, Len(transcript)), ReprBits),
                                 num_bits), 1)]

\* Err(Error::ChallengeNotMatch { challenge_index }) and the oracle as it was left
ChallengeNotMatch(challenge_index, transcript) ==
    [status |-> "Err", value |-> "ChallengeNotMatch", challenge_index |-> challenge_index,
     ro |-> transcript]

RECURSIVE sps_rounds(_, _, _)
\* the loop `for i in 0..num_challenges` of sps_verify from the round i (0-based) on
sps_rounds(instance, transcript, i) ==
    IF i >= Len(instance.challenges)
    THEN [status |-> "Ok", value |-> "", challenge_index |-> 0, ro |-> transcript]
    ELSE IF i >= Len(instance.W_commitments)
    THEN [status |-> "panic", value |-> "", challenge_index |-> 0, ro |-> transcript]
    ELSE LET r == squeeze_bits(absorb_point(transcript, instance.W_commitments[i + 1]),
                               NUM_CHALLENGE_BITS)
         IN  IF r.value # instance.challenges[i + 1]
             THEN ChallengeNotMatch(i, r.ro)
             ELSE sps_rounds(instance, r.ro, i + 1)

\* PlonkInstance::sps_verify(&self, ro_nark): Ok(()), Err(ChallengeNotMatch) or the panic of an
\* unwrap, and ro_nark afterwards
sps_verify(instance, ro_nark) ==
    LET num_challenges == Len(instance.challenges)
        values == Flatten(instance.instances)
    IN  IF num_challenges = 0
        THEN [status |-> "Ok", value |-> "", challenge_index |-> 0, ro |-> ro_nark]
        ELSE IF \E k \in 1 .. Len(values) : ~fe_to_fe(values[k]).ok
        THEN [status |-> "panic", value |-> "", challenge_index |-> 0, ro |-> ro_nark]
        ELSE sps_rounds(instance,
                        absorb_iter(ro_nark,
                                    FieldItems([k \in 1 .. Len(values) |->
                                                   fe_to_fe(values[k]).value])),
                        0)

RECURSIVE sps_challenges(_, _, _)
\* the challenges of a conforming prover for the commitments from round i (0-based) on: each
\* the squeeze after the absorption of the commitment of the round
sps_challenges(W_commitments, transcript, i) ==
    IF i >= Len(W_commitments) THEN <<>>
    ELSE LET r == squeeze_bits(absorb_point(transcript, W_commitments[i + 1]),
                               NUM_CHALLENGE_BITS)
         IN  <<r.value>> \o sps_challenges(W_commitments, r.ro, i + 1)

---------------------------------------------------------------------------
(* verify_sps (in-circuit) *)

RECURSIVE verify_sps_rounds(_, _, _, _)
\* the loop over pi.W_commitments.iter().zip_eq(pi.challenges.iter()) from the round i
\* (0-based) on: absorb_point, squeeze(region), constrain_equal(expected, challenge); zip_eq
\* panics when one side ends before the other. `constraints` are the pairs of cells
\* constrained equal.
verify_sps_rounds(pi, transcript, i, constraints) ==
    IF i >= Len(pi.W_commitments) /\ i >= Len(pi.challenges)
    THEN [status |-> "Ok", ro |-> transcript, constraints |-> constraints]
    ELSE IF i >= Len(pi.W_commitments) \/ i >= Len(pi.challenges)
    THEN [status |-> "panic", ro |-> transcript, constraints |-> constraints]
    ELSE LET expected == squeeze(absorb_point(transcript, pi.W_commitments[i + 1]))
         IN  verify_sps_rounds(pi, expected.ro, i + 1,
                 Append(constraints,
                        [expected |-> expected.value, challenge |-> pi.challenges[i + 1]]))

RECURSIVE verify_sps(_, _, _, _)
\* verify_sps(region, ro_circuit, incoming) from the instance j (1-based) on: an instance
\* without challenges is skipped, of the others the instance values are absorbed and the
\* rounds run
verify_sps(inc, transcript, j, constraints) ==
    IF j > Len(inc) THEN [status |-> "Ok", ro |-> transcript, constraints |-> constraints]
    ELSE IF Len(inc[j].challenges) = 0 THEN verify_sps(inc, transcript, j + 1, constraints)
    ELSE LET rounds == verify_sps_rounds(inc[j],
                           absorb_iter(transcript, FieldItems(Flatten(inc[j].instances))),
                           0, constraints)
         IN  IF rounds.status = "panic" THEN rounds
             ELSE verify_sps(inc, rounds.ro, j + 1, rounds.constraints)

---------------------------------------------------------------------------

(* Accumulator::new *)

\* PlonkTrace::new(args), its instance: the commitments at the identity, the instance
\* columns and the challenges zeroed
PlonkTrace_new(args) ==
    [W_commitments |-> [i \in 1 .. args.num_challenges |-> 0],
     instances |-> <<[i \in 1 .. args.num_io |-> 0]>>,
     challenges |-> [i \in 1 .. args.num_challenges |-> 0]]

\* an accumulator with one beta more than asked for
Accumulator_new_one_more(args, count_of_evaluation) ==
    [ins |-> PlonkTrace_new(args),
     betas |-> [i \in 1 .. count_of_evaluation + 1 |-> 0],
     e |-> 0]

\* Accumulator::new(args, count_of_evaluation): betas = vec![ZERO; count_of_evaluation],
\* e = ZERO, trace = PlonkTrace::new(args)
Accumulator_new(args, count_of_evaluation) ==
    [ins |-> PlonkTrace_new(args),
     betas |-> [i \in 1 .. count_of_evaluation |-> 0],
     e |-> 0]

---------------------------------------------------------------------------
(* Inputs *)

RECURSIVE SeqsUpTo(_, _)
\* all sequences over `values` of length <= n
SeqsUpTo(values, n) ==
    IF n = 0 THEN {<<>>}
    ELSE LET shorter == SeqsUpTo(values, n - 1)
         IN shorter \cup {Append(s, v) : s \in {t \in shorter : Len(t) = n - 1}, v \in values}

otherThanPoly == <<proofVars, instanceVars, roVars, offVars, betaVars, kVars, traceVars>>

\* `values`, the iterator (0..).map(Into::into) of the tests, started at s: n items
TakeValues(s, n) == [i \in 1 .. n |-> (s + i - 1) % FieldP]

\* a PlonkInstance with num_challenges rounds and one instance column of num_io values, its
\* cells filled with consecutive values from `seed`: commitments, instance values, challenges
MkInstance(seed, num_challenges, num_io) ==
    [W_commitments |-> TakeValues(seed, num_challenges),
     instances |-> <<TakeValues(seed + num_challenges, num_io)>>,
     challenges |-> TakeValues(seed + num_challenges + num_io, num_challenges)]

\* an accumulator instance: the running instance, num_betas betas and e
MkAccumulator(seed, num_challenges, num_io, num_betas) ==
    [ins |-> MkInstance(seed, num_challenges, num_io),
     betas |-> TakeValues(seed + 2 * num_challenges + num_io, num_betas),
     e |-> (seed + 2 * num_challenges + num_io + num_betas) % FieldP]

\* len incoming instances of the same shape, instance j seeded after instance j - 1
MkIncoming(seed, len, num_challenges, num_io) ==
    [j \in 1 .. len |-> MkInstance(seed + (j - 1) * (2 * num_challenges + num_io),
                                   num_challenges, num_io)]

NoCall == [op |-> "none", arg |-> 0, L |-> 0, len0 |-> 0]

NoRet == [status |-> "none", value |-> 0, muls |-> 0]

---------------------------------------------------------------------------
(* SpecPoly: a polynomial, a point x and the ValuePowers cache of x; the cache is  *)
(* extended by get_or_eval and the polynomial evaluated in-circuit, in any order. *)

InitPoly ==
    /\ pc = "ready"
    /\ \E x \in Field : challenge_powers = ValuePowers_new(1, x).powers
    /\ poly \in SeqsUpTo(CoeffSet, MaxCoeffs)
    /\ call = NoCall
    /\ ret = NoRet
    /\ IdleProof /\ IdleInstance /\ IdleRo /\ IdleOff /\ IdleBeta /\ IdleK /\ IdleTrace

\* challenge_powers.get_or_eval(region, main_gate, exp)
GetOrEval(exp) ==
    /\ pc = "ready"
    /\ LET r == get_or_eval(challenge_powers, exp)
       IN /\ challenge_powers' = r.powers
          /\ ret' = [status |-> "ok", value |-> r.value, muls |-> r.muls]
    /\ call' = [op |-> "get_or_eval", arg |-> exp, L |-> 0, len0 |-> Len(challenge_powers)]
    /\ UNCHANGED <<pc, poly, otherThanPoly>>

\* poly.eval(region, main_gate, &mut challenge_powers)
Eval ==
    /\ pc = "ready"
    /\ LET r == AssignedUnivariatePoly_eval(poly, challenge_powers)
       IN /\ challenge_powers' = r.powers
          /\ ret' = [status |-> r.status, value |-> r.value, muls |-> 0]
          /\ pc' = IF r.status = "panic" THEN "panicked" ELSE "ready"
    /\ call' = [op |-> "eval", arg |-> Len(poly), L |-> 0, len0 |-> Len(challenge_powers)]
    /\ UNCHANGED <<poly, otherThanPoly>>

NextPoly ==
    \/ \E exp \in 0 .. MaxExp : GetOrEval(exp)
    \/ Eval

SpecPoly == InitPoly /\ [][NextPoly]_vars

---------------------------------------------------------------------------
(* Claims on polynomial evaluation *)

RECURSIVE SumCoeffPow(_, _, _)
\* sum over i < n of c_i * x^i
SumCoeffPow(coeffs, x, n) ==
    IF n = 0 THEN 0 ELSE fadd(SumCoeffPow(coeffs, x, n - 1), fmul(coeffs[n], fpow(x, n - 1)))

\* C1: for any polynomial p and point x, in-circuit eval over a cache built from (one, x)
\* returns the value sum c_i * x^i, the value of the off-circuit p.eval(x).
C1_EvalAnyPoly ==
    (call.op = "eval" /\ call.len0 = 2) =>
        /\ ret.status = "ok"
        /\ ret.value = SumCoeffPow(poly, challenge_powers[2], Len(poly))
        /\ ret.value = UnivariatePoly_eval(poly, challenge_powers[2])

---------------------------------------------------------------------------
\* entry k of the cache is x^k, x the value the cache was built from
PowersOfX ==
    \A k \in 1 .. Len(challenge_powers) :
        challenge_powers[k] = fpow(ValuePowers_value(challenge_powers), k - 1)

\* C24: after any sequence of get_or_eval calls on a ValuePowers built from (one, x), entry
\* k of the cache is x^k for every k below the cache length and get_or_eval(k) has returned
\* x^k; in every step the cache length does not decrease, a request for k below the current
\* length n performs no multiplication and leaves the cache unchanged, and a request for k
\* at or beyond n performs exactly k + 1 - n multiplications.
C24_GetOrEval ==
    /\ [](/\ PowersOfX
          /\ call.op = "get_or_eval" =>
                 /\ ret.status = "ok"
                 /\ ret.value = fpow(ValuePowers_value(challenge_powers), call.arg))
    /\ [][/\ Len(challenge_powers') >= Len(challenge_powers)
          /\ call'.op = "get_or_eval" =>
                 IF call'.arg < Len(challenge_powers)
                 THEN /\ ret'.muls = 0
                      /\ challenge_powers' = challenge_powers
                 ELSE /\ ret'.muls = call'.arg + 1 - Len(challenge_powers)
                      /\ Len(challenge_powers') = call'.arg + 1]_vars

\* get_or_eval(4) on a cache of three powers of an x other than 0 and 1 has made two
\* multiplications and returned x^4
C24_Witness ==
    /\ call.op = "get_or_eval"
    /\ call.arg = 4
    /\ call.len0 = 3
    /\ ValuePowers_value(challenge_powers) \notin {0, 1}
    /\ Len(challenge_powers) = 5
    /\ ret.muls = 2
    /\ ret.value = fpow(ValuePowers_value(challenge_powers), 4)

\* get_or_eval(1) on a cache of four powers has made no multiplication
GetOrEvalCached_Reached ==
    /\ call.op = "get_or_eval"
    /\ call.arg = 1
    /\ call.len0 = 4
    /\ Len(challenge_powers) = 4
    /\ ret.muls = 0

\* C23: eval on a polynomial with an odd number of coefficients (a single one included)
\* takes the trailing coefficient as a chunk of length 1 whose missing pair counts as zero,
\* and returns sum c_i * x^i as it does for an even number; stated for a cache fresh from
\* ValuePowers::new(one, x).
C23_OddCoefficients ==
    (call.op = "eval" /\ call.arg % 2 = 1 /\ call.len0 = 2) =>
        /\ ret.status = "ok"
        /\ ret.value = SumCoeffPow(poly, challenge_powers[2], Len(poly))

\* eval panics on every odd number of coefficients, whatever the cache holds
Eval_OddPanics ==
    (call.op = "eval" /\ call.arg % 2 = 1) => ret.status = "panic" /\ pc = "panicked"

\* eval panicked on three coefficients with a cache of exactly three powers: the pairs zip,
\* and the trailing chunk of one pair does not fill the two columns
EvalTrailingChunk_Reached ==
    /\ call.op = "eval"
    /\ call.arg = 3
    /\ call.len0 = 2
    /\ Len(challenge_powers) = 3
    /\ ret.status = "panic"

\* eval panicked on a single coefficient: the cache holds two powers
EvalSingleCoefficient_Reached ==
    /\ call.op = "eval"
    /\ call.arg = 1
    /\ call.len0 = 2
    /\ ret.status = "panic"

\* eval returned the sum for four coefficients
EvalEven_Reached ==
    /\ call.op = "eval"
    /\ call.arg = 4
    /\ ret.status = "ok"
    /\ ret.value = SumCoeffPow(poly, challenge_powers[2], 4)
    /\ ret.value # 0

\* C27: eval returns sum c_i * x^i for any prior state of the cache it is handed, a cache
\* that already holds more powers than the polynomial has coefficients included; stated
\* for the even, non-zero numbers of coefficients, which fill the two columns of every row.
C27_EvalAnyCache ==
    (call.op = "eval" /\ call.arg >= 2 /\ call.arg % 2 = 0) =>
        /\ ret.status = "ok"
        /\ ret.value = SumCoeffPow(poly, ValuePowers_value(challenge_powers), Len(poly))

\* eval panics whenever the cache it is handed holds more powers than the polynomial has
\* coefficients, and returns the sum for an even, non-zero number of coefficients otherwise
Eval_CacheLongerPanics ==
    call.op = "eval" =>
        /\ call.len0 > call.arg => ret.status = "panic" /\ pc = "panicked"
        /\ (call.arg >= 2 /\ call.arg % 2 = 0 /\ call.len0 <= call.arg) =>
               /\ ret.status = "ok"
               /\ ret.value = SumCoeffPow(poly, ValuePowers_value(challenge_powers), Len(poly))

\* eval panicked on two coefficients with a cache of three powers, left by get_or_eval(2)
EvalCacheLonger_Reached ==
    /\ call.op = "eval"
    /\ call.arg = 2
    /\ call.len0 = 3
    /\ Len(challenge_powers) = 3
    /\ ret.status = "panic"

\* eval returned the sum for four coefficients with a cache already extended to four powers
EvalCacheFits_Reached ==
    /\ call.op = "eval"
    /\ call.arg = 4
    /\ call.len0 = 4
    /\ ret.status = "ok"
    /\ ret.value # 0

---------------------------------------------------------------------------
(* SpecLagrange: a point x and its ValuePowers cache; Lagrange basis elements and    *)
(* vanishing polynomials are evaluated in-circuit at x, in any order, for any number *)
(* L of incoming instances up to MaxL.                                               *)

InitLagrange ==
    /\ pc = "ready"
    /\ \E x \in Field : challenge_powers = ValuePowers_new(1, x).powers
    /\ poly = <<>>
    /\ call = NoCall
    /\ ret = NoRet
    /\ IdleProof /\ IdleInstance /\ IdleRo /\ IdleOff /\ IdleBeta /\ IdleK /\ IdleTrace

\* eval_lagrange_poly::<F, T, L>(region, main_gate, lagrange_index, &mut challenge_powers)
EvalLagrange(L, lagrange_index) ==
    /\ pc = "ready"
    /\ LET r == eval_lagrange_poly(L, lagrange_index, challenge_powers)
       IN /\ challenge_powers' = r.powers
          /\ ret' = [status |-> r.status, value |-> r.value, muls |-> 0]
          /\ pc' = IF r.status = "panic" THEN "panicked" ELSE "ready"
    /\ call' = [op |-> "eval_lagrange_poly", arg |-> lagrange_index, L |-> L,
                len0 |-> Len(challenge_powers)]
    /\ UNCHANGED <<poly, otherThanPoly>>

\* eval_vanish_polynomial(region, main_gate, degree, &mut challenge_powers)
EvalVanish(degree) ==
    /\ pc = "ready"
    /\ LET r == eval_vanish_polynomial(degree, challenge_powers)
       IN /\ challenge_powers' = r.powers
          /\ ret' = [status |-> "ok", value |-> r.value, muls |-> 0]
    /\ call' = [op |-> "eval_vanish_polynomial", arg |-> degree, L |-> 0,
                len0 |-> Len(challenge_powers)]
    /\ UNCHANGED <<pc, poly, otherThanPoly>>

NextLagrange ==
    \/ \E L \in 0 .. MaxL : \E lagrange_index \in 0 .. L : EvalLagrange(L, lagrange_index)
    \/ \E degree \in 0 .. MaxExp : EvalVanish(degree)

SpecLagrange == InitLagrange /\ [][NextLagrange]_vars

---------------------------------------------------------------------------
(* Claims on the Lagrange basis *)

RECURSIVE LagrangeProduct(_, _, _, _)
\* the Lagrange basis element by its definition: the product over j # i, j <= m, of
\* (x - w^j) / (w^i - w^j), over the points w^0 .. w^(n-1) of `domain` (m counts down from n)
LagrangeProduct(domain, i, x, m) ==
    IF m = 0 THEN 1
    ELSE IF m = i + 1 THEN LagrangeProduct(domain, i, x, m - 1)
    ELSE fmul(LagrangeProduct(domain, i, x, m - 1),
              fmul(fsub(x, domain[m]), finvert(fsub(domain[i + 1], domain[m])).value))

\* the call was eval_lagrange_poly with L + 1 a power of two
LagrangeCalled == call.op = "eval_lagrange_poly" /\ is_power_of_two(call.L + 1)

\* C2: for every index i < L + 1 and every point x, in-circuit eval_lagrange_poly(i) returns
\* the Lagrange basis element L_i(x) of the domain of L + 1 points, the value of the
\* off-circuit closed form: 1 at x = w^i and 0 at x = w^j, j # i.
C2_LagrangeEquivalence ==
    LagrangeCalled =>
        LET log_n == ilog2(call.L + 1)
            domain == iter_cyclic_subgroup(log_n)
            x == challenge_powers[2]
        IN  /\ ret.status = "ok"
            /\ ret.value = off_eval_lagrange_poly(x, log_n, call.arg)
            /\ ret.value = LagrangeProduct(domain, call.arg, x, Len(domain))
            /\ \A j \in 1 .. Len(domain) :
                   x = domain[j] => ret.value = (IF j = call.arg + 1 THEN 1 ELSE 0)

\* C2 witness: L_1 of the 4-point domain was evaluated at its own point w^1, where
\* numerator and denominator both vanish
C2_Witness ==
    /\ LagrangeCalled
    /\ call.L = 3
    /\ call.arg = 1
    /\ challenge_powers[2] = iter_cyclic_subgroup(2)[2]
    /\ ret.value = 1

---------------------------------------------------------------------------
(* SpecE: a proof, gamma, alpha and fresh caches, as tests::test_e draws them from one *)
(* iterator of consecutive values (poly_F, then poly_K, then gamma, then alpha), with  *)
(* any start and any two coefficient counts; calculate_e runs once for some L.         *)

otherThanProof == <<polyVars, instanceVars, roVars, offVars, betaVars, kVars, traceVars>>

InitE ==
    /\ pc = "ready"
    /\ \E s \in Field : \E n, m \in 0 .. MaxCoeffs :
          /\ proof = [poly_F |-> TakeValues(s, n), poly_K |-> TakeValues(s + n, m)]
          /\ gamma_powers = ValuePowers_new(1, (s + n + m) % FieldP).powers
          /\ alpha_powers = ValuePowers_new(1, (s + n + m + 1) % FieldP).powers
    /\ new_e = 0
    /\ call = NoCall
    /\ ret = NoRet
    /\ IdlePoly /\ IdleInstance /\ IdleRo /\ IdleOff /\ IdleBeta /\ IdleK /\ IdleTrace

\* calculate_e::<F, T, L>(region, main_gate, &proof, &mut gamma_powers, &mut alpha_powers)
CalculateE(L) ==
    /\ pc = "ready"
    /\ LET r == calculate_e(L, proof, gamma_powers, alpha_powers)
       IN /\ gamma_powers' = r.gamma_powers
          /\ alpha_powers' = r.alpha_powers
          /\ new_e' = r.value
          /\ ret' = [status |-> r.status, value |-> r.value, muls |-> 0]
          /\ pc' = IF r.status = "panic" THEN "panicked" ELSE "done"
    /\ call' = [op |-> "calculate_e", arg |-> 0, L |-> L, len0 |-> Len(gamma_powers)]
    /\ UNCHANGED <<proof, otherThanProof>>

NextE == \E L \in 0 .. MaxL : CalculateE(L)

SpecE == InitE /\ [][NextE]_vars

---------------------------------------------------------------------------
(* Claims on calculate_e *)

\* F(alpha) * L_0(gamma) + Z(gamma) * K(gamma) from the definitions: sums of c_i * x^i, the
\* product form of L_0 over the domain of L + 1 points, Z(gamma) = gamma^(L+1) - 1
DirectE(L, prf, gamma, alpha) ==
    LET domain == iter_cyclic_subgroup(ilog2(L + 1))
    IN  fadd(fmul(SumCoeffPow(prf.poly_F, alpha, Len(prf.poly_F)),
                  LagrangeProduct(domain, 0, gamma, Len(domain))),
             fmul(fsub(fpow(gamma, L + 1), 1),
                  SumCoeffPow(prf.poly_K, gamma, Len(prf.poly_K))))

\* C3: for any proof, any alpha and gamma and any L with L + 1 a power of two, in-circuit
\* calculate_e returns F(alpha) * L_0(gamma) + Z(gamma) * K(gamma), the value of the
\* off-circuit calculate_e on the same inputs.
C3_CalculateE ==
    (call.op = "calculate_e" /\ is_power_of_two(call.L + 1)) =>
        /\ ret.status = "ok"
        /\ ret.value = DirectE(call.L, proof, gamma_powers[2], alpha_powers[2])
        /\ ret.value = off_calculate_e(proof.poly_F, proof.poly_K, gamma_powers[2],
                                       alpha_powers[2], ilog2(call.L + 1))

\* where calculate_e returns a cell (both coefficient counts even and non-zero, poly_K at
\* least as long as the gamma cache), the cell holds that value
CalculateE_ValueWhenOk ==
    (call.op = "calculate_e" /\ ret.status = "ok") =>
        /\ ret.value = DirectE(call.L, proof, gamma_powers[2], alpha_powers[2])
        /\ ret.value = off_calculate_e(proof.poly_F, proof.poly_K, gamma_powers[2],
                                       alpha_powers[2], ilog2(call.L + 1))

---------------------------------------------------------------------------
(* SpecChallenges: verifier parameters, an accumulator, incoming instances and a proof; *)
(* the challenges are generated in-circuit and off-circuit, each from a fresh oracle.   *)

otherThanChallenges == <<polyVars, gamma_powers, alpha_powers, new_e, betaVars, kVars, traceVars>>

InitChallenges ==
    /\ pc = "ready"
    /\ \E num_challenges \in 0 .. MaxRounds, num_io \in 0 .. MaxIo, num_betas \in 0 .. MaxBetas,
          len \in 0 .. MaxL, seed \in SeedSet, n \in 0 .. MaxCoeffs :
      \E m \in {0, n} :
          /\ vp = [pp_digest |-> 0]
          /\ accumulator = MkAccumulator(1, num_challenges, num_io, num_betas)
          /\ incoming = MkIncoming(seed, len, num_challenges, num_io)
          /\ proof = [poly_F |-> TakeValues(2, n), poly_K |-> TakeValues(2 + n, m)]
    /\ ro = <<>> /\ assigned_challenges = <<>>
    /\ ro_off = <<>> /\ off_challenges = <<>>
    /\ gamma_powers = <<>> /\ alpha_powers = <<>> /\ new_e = 0
    /\ call = NoCall
    /\ ret = NoRet
    /\ IdlePoly /\ IdleBeta /\ IdleK /\ IdleTrace

\* AssignedChallanges::generate(region, ro_circuit, vp, &accumulator, incoming, &proof) on the
\* assigned inputs, from a fresh PoseidonChip
Generate ==
    /\ pc = "ready"
    /\ assigned_challenges = <<>>
    /\ LET r == AssignedChallanges_generate(<<>>, vp,
                    AssignedAccumulatorInstance_assign(accumulator),
                    [j \in 1 .. Len(incoming) |-> AssignedPlonkInstance_assign(incoming[j])],
                    [poly_F |-> [i \in 1 .. Len(proof.poly_F) |-> fe_to_fe(proof.poly_F[i]).value],
                     poly_K |-> [i \in 1 .. Len(proof.poly_K) |-> fe_to_fe(proof.poly_K[i]).value]])
       IN /\ ro' = r.ro
          /\ assigned_challenges' = [delta |-> r.delta, alpha |-> r.alpha, gamma |-> r.gamma]
    /\ UNCHANGED <<pc, call, ret, proof, instanceVars, offVars, otherThanChallenges>>

\* Challenges::generate(&params, &mut PoseidonHash::new(spec), &acc, instances, &proof)
GenerateOff ==
    /\ pc = "ready"
    /\ off_challenges = <<>>
    /\ LET r == Challenges_generate(vp, <<>>, accumulator, incoming, proof)
       IN /\ ro_off' = r.ro
          /\ off_challenges' = [delta |-> r.delta, alpha |-> r.alpha, gamma |-> r.gamma]
    /\ UNCHANGED <<pc, call, ret, proof, instanceVars, roVars, otherThanChallenges>>

NextChallenges == Generate \/ GenerateOff

SpecChallenges == InitChallenges /\ [][NextChallenges]_vars

\* the items one instance contributes to the transcript: commitments as points, then the
\* instance values column by column, then the challenges
InstanceItems(pi) ==
    LET nw == Len(pi.W_commitments)
        vals == Flatten(pi.instances)
        nv == Len(vals)
        nc == Len(pi.challenges)
    IN  [i \in 1 .. nw + nv + nc |->
            IF i <= nw THEN PointItem(pi.W_commitments[i])
            ELSE IF i <= nw + nv THEN FieldItem(vals[i - nw])
            ELSE FieldItem(pi.challenges[i - nw - nv])]

\* the items the accumulator contributes: its instance, then the betas, then e
AccumulatorItems(acc) ==
    InstanceItems(acc.ins)
        \o [i \in 1 .. Len(acc.betas) |-> FieldItem(acc.betas[i])]
        \o <<FieldItem(acc.e)>>

RECURSIVE IncomingItems(_, _)
IncomingItems(inc, j) ==
    IF j > Len(inc) THEN <<>> ELSE InstanceItems(inc[j]) \o IncomingItems(inc, j + 1)

IsAbsorb(item) == item.kind # "squeeze"

\* the absorbed items of a transcript, squeezes left out
Absorbed(transcript) == SelectSeq(transcript, IsAbsorb)

InCircuitGenerated == assigned_challenges # <<>>

OffCircuitGenerated == off_challenges # <<>>

C5_DeltaAfterAccumulator ==
    InCircuitGenerated =>
        ro = <<PointItem(vp.pp_digest)>>
                 \o AccumulatorItems(accumulator)
                 \o <<SqueezeItem>>
                 \o IncomingItems(incoming, 1)
                 \o [i \in 1 .. Len(proof.poly_F) |-> FieldItem(proof.poly_F[i])]
                 \o <<SqueezeItem>>
                 \o [i \in 1 .. Len(proof.poly_K) |-> FieldItem(proof.poly_K[i])]
                 \o <<SqueezeItem>>

\* C5 (amended): the in-circuit transcript is pp_digest, the accumulator (W_commitments,
\* instance values, challenges, betas, e), each incoming instance in order, the squeeze of
\* delta, poly_F, the squeeze of alpha, poly_K, the squeeze of gamma; each challenge is the
\* oracle's output on the transcript before its squeeze.
C5_DeltaAfterIncoming ==
    InCircuitGenerated =>
        LET head == <<PointItem(vp.pp_digest)>>
                        \o AccumulatorItems(accumulator)
                        \o IncomingItems(incoming, 1)
            at_delta == Len(head) + 1
            at_alpha == at_delta + Len(proof.poly_F) + 1
            at_gamma == at_alpha + Len(proof.poly_K) + 1
        IN  /\ ro = head
                        \o <<SqueezeItem>>
                        \o [i \in 1 .. Len(proof.poly_F) |-> FieldItem(proof.poly_F[i])]
                        \o <<SqueezeItem>>
                        \o [i \in 1 .. Len(proof.poly_K) |-> FieldItem(proof.poly_K[i])]
                        \o <<SqueezeItem>>
            /\ assigned_challenges.delta = ro_digest(ro, at_delta - 1)
            /\ assigned_challenges.alpha = ro_digest(ro, at_alpha - 1)
            /\ assigned_challenges.gamma = ro_digest(ro, at_gamma - 1)

\* challenges generated in-circuit with two incoming instances that each contribute items
C5_Witness ==
    /\ InCircuitGenerated
    /\ Len(incoming) = 2
    /\ Len(incoming[1].W_commitments) = 1
    /\ Len(accumulator.betas) = 1
    /\ Len(proof.poly_F) = 1
    /\ ro[Len(AccumulatorItems(accumulator)) + 2].kind = "point"
    /\ ro[Len(AccumulatorItems(accumulator)) + 2 * Len(InstanceItems(incoming[1])) + 2].kind
           = "squeeze"

---------------------------------------------------------------------------
\* the polynomials of a second run: none, one and two coefficients
OtherPolys == {<<>>, <<1>>, <<5, 0>>}

\* the proofs of a second run
OtherProofs == [poly_F : OtherPolys, poly_K : OtherPolys]

\* AssignedChallanges::generate of a second run on the same vp, accumulator and incoming
\* instances with the proof prf
GenerateWith(prf) ==
    AssignedChallanges_generate(<<>>, vp,
        AssignedAccumulatorInstance_assign(accumulator),
        [j \in 1 .. Len(incoming) |-> AssignedPlonkInstance_assign(incoming[j])],
        [poly_F |-> [i \in 1 .. Len(prf.poly_F) |-> fe_to_fe(prf.poly_F[i]).value],
         poly_K |-> [i \in 1 .. Len(prf.poly_K) |-> fe_to_fe(prf.poly_K[i]).value]])

\* C29: two runs of challenge generation that agree on vp, the accumulator and the
\* incoming instances produce the same delta whatever the proofs are, and two runs that
\* agree on poly_F as well produce the same alpha whatever poly_K is.
C29_DeltaAlphaIndependence ==
    InCircuitGenerated =>
        /\ \A prf \in OtherProofs : GenerateWith(prf).delta = assigned_challenges.delta
        /\ \A poly_K \in OtherPolys :
               GenerateWith([poly_F |-> proof.poly_F, poly_K |-> poly_K]).alpha =
                   assigned_challenges.alpha

\* a run with one incoming instance and a proof of two and two coefficients, for which a
\* second run with another poly_F gives another alpha and the same delta, and a second run
\* with another poly_K gives another gamma and the same alpha
C29_Witness ==
    /\ InCircuitGenerated
    /\ Len(incoming) = 1
    /\ Len(proof.poly_F) = 2 /\ Len(proof.poly_K) = 2
    /\ \E prf \in OtherProofs :
          /\ prf.poly_F # proof.poly_F
          /\ GenerateWith(prf).alpha # assigned_challenges.alpha
          /\ GenerateWith(prf).delta = assigned_challenges.delta
    /\ \E prf \in OtherProofs :
          LET second == GenerateWith([prf EXCEPT !.poly_F = proof.poly_F])
          IN  /\ prf.poly_K # proof.poly_K
              /\ second.gamma # assigned_challenges.gamma
              /\ second.alpha = assigned_challenges.alpha

---------------------------------------------------------------------------

(* SpecBetas: a PolyChallenges (betas, alpha, delta); the off-circuit iterator is stepped *)
(* with next(), also past its end, and calculate_betas_stroke is run on the same input.   *)

otherThanBetas == <<polyVars, proofVars, instanceVars, roVars, offVars, kVars, traceVars>>

InitBetas ==
    /\ pc = "ready"
    /\ \E seed \in SeedSet, n \in 0 .. MaxBetas, alpha \in Field, delta \in Field :
          poly_challenges = [betas |-> TakeValues(seed, n), alpha |-> alpha, delta |-> delta]
    /\ iter = iter_beta_stroke(poly_challenges)
    /\ yielded = <<>>
    /\ betas_stroke = <<>>
    /\ call = NoCall
    /\ ret = NoRet
    /\ IdlePoly /\ IdleProof /\ IdleInstance /\ IdleRo /\ IdleOff /\ IdleK /\ IdleTrace

\* one call of BetaStrokeIter::next; call.arg counts the calls made
IterNext ==
    /\ pc = "ready"
    /\ call.arg < Len(poly_challenges.betas) + MaxPastEnd
    /\ LET r == BetaStrokeIter_next(iter)
       IN /\ iter' = r.iter
          /\ yielded' = IF r.item.some THEN Append(yielded, r.item.value) ELSE yielded
          /\ ret' = [status |-> IF r.item.some THEN "Some" ELSE "None",
                     value |-> r.item.value, muls |-> 0]
    /\ call' = [op |-> "next", arg |-> call.arg + 1, L |-> 0, len0 |-> 0]
    /\ UNCHANGED <<pc, poly_challenges, betas_stroke, otherThanBetas>>

\* calculate_betas_stroke(region, main_gate, cha) on the assigned challenges
CalculateBetasStroke ==
    /\ pc = "ready"
    /\ betas_stroke = <<>>
    /\ betas_stroke' = calculate_betas_stroke(poly_challenges)
    /\ UNCHANGED <<pc, call, ret, poly_challenges, iter, yielded, otherThanBetas>>

NextBetas == IterNext \/ CalculateBetasStroke

SpecBetas == InitBetas /\ [][NextBetas]_vars

\* C6: iter_beta_stroke yields exactly betas.len() items, the i-th (0-based) being
\* betas[i] + alpha * delta^(2^i), and every call of next() after the last item returns None.
C6_BetaStrokeIter ==
    LET betas == poly_challenges.betas
        calls == call.arg
    IN  /\ Len(yielded) = (IF calls <= Len(betas) THEN calls ELSE Len(betas))
        /\ iter.beta_index = Len(yielded)
        /\ \A i \in 1 .. Len(yielded) :
               yielded[i] = fadd(betas[i],
                                 fmul(poly_challenges.alpha,
                                      fpow(poly_challenges.delta, Pow2(i - 1))))
        /\ (call.op = "next" /\ calls <= Len(betas)) =>
               /\ ret.status = "Some"
               /\ ret.value = yielded[calls]
        /\ (call.op = "next" /\ calls > Len(betas)) => ret.status = "None"

\* three betas yielded with delta = 2 and alpha = 1 (delta^4 = 3 differs from delta), and
\* next() called twice more
C6_Witness ==
    /\ Len(poly_challenges.betas) = 3
    /\ poly_challenges.delta = 2 /\ poly_challenges.alpha = 1
    /\ call.arg = 5
    /\ ret.status = "None"
    /\ yielded = <<fadd(poly_challenges.betas[1], 2),
                   fadd(poly_challenges.betas[2], 4),
                   fadd(poly_challenges.betas[3], 3)>>

\* C7: the cells returned by calculate_betas_stroke equal, position by position and in
\* length, the sequence collected from the off-circuit iter_beta_stroke.
C7_BetasStrokeEquivalence ==
    betas_stroke # <<>> =>
        /\ betas_stroke.status = "ok"
        /\ Len(betas_stroke.value) = Len(poly_challenges.betas)
        /\ betas_stroke.value = collect(iter_beta_stroke(poly_challenges))
        /\ \A i \in 1 .. Len(yielded) : betas_stroke.value[i] = yielded[i]

\* calculate_betas_stroke has run on three betas with delta = 2 (delta^3 = 8, delta^4 = 3)
\* and the iterator has been drained
C7_Witness ==
    /\ betas_stroke # <<>>
    /\ Len(poly_challenges.betas) = 3
    /\ poly_challenges.delta = 2 /\ poly_challenges.alpha = 1
    /\ Len(yielded) = 3
    /\ betas_stroke.value[3] = fadd(poly_challenges.betas[3], 3)

---------------------------------------------------------------------------
(* SpecFold: an accumulator instance and L incoming instances of its shape are folded at *)
(* a challenge gamma, whose cache is fresh or already extended by earlier evaluations.   *)

otherThanFold == <<polyVars, proof, alpha_powers, new_e, vp, roVars, offVars, betaVars, kVars, traceVars>>

InitFold ==
    /\ pc = "ready"
    /\ \E L \in 0 .. MaxL, num_challenges \in 0 .. MaxRounds, num_io \in 0 .. MaxIo,
          seed \in SeedSet :
          /\ accumulator = MkAccumulator(1, num_challenges, num_io, 0)
          /\ incoming = MkIncoming(seed, L, num_challenges, num_io)
    /\ \E gamma \in Field, exp \in {0, MaxExp} :
          gamma_powers = get_or_eval(ValuePowers_new(1, gamma).powers, exp).powers
    /\ vp = <<>> /\ proof = <<>> /\ alpha_powers = <<>> /\ new_e = 0
    /\ call = NoCall
    /\ ret = NoRet
    /\ IdlePoly /\ IdleRo /\ IdleOff /\ IdleBeta /\ IdleK /\ IdleTrace

\* fold_instances::<C, T, L>(region, main_gate, &accumulator.ins, incoming, &mut gamma_powers)
FoldInstances ==
    /\ pc = "ready"
    /\ LET r == fold_instances(Len(incoming),
                    AssignedPlonkInstance_assign(accumulator.ins),
                    [j \in 1 .. Len(incoming) |-> AssignedPlonkInstance_assign(incoming[j])],
                    gamma_powers)
       IN /\ gamma_powers' = r.powers
          /\ ret' = [status |-> r.status, value |-> r.value, muls |-> 0]
          /\ pc' = IF r.status = "panic" THEN "panicked" ELSE "done"
    /\ call' = [op |-> "fold_instances", arg |-> 0, L |-> Len(incoming),
                len0 |-> Len(gamma_powers)]
    /\ UNCHANGED <<accumulator, incoming, otherThanFold>>

NextFold == FoldInstances

SpecFold == InitFold /\ [][NextFold]_vars

RECURSIVE FoldSum(_, _, _, _, _)
\* sum over j = 0 .. m of value(j) * L_j(x), where value(0) = cells[1] is the accumulator's
\* cell and value(j) = cells[j + 1] the cell of incoming[j - 1]
FoldSum(cells, domain, x, m, acc) ==
    IF m < 0 THEN acc
    ELSE FoldSum(cells, domain, x, m - 1,
                 fadd(acc, fmul(cells[m + 1], LagrangeProduct(domain, m, x, Len(domain)))))

FoldCalled == call.op = "fold_instances" /\ is_power_of_two(call.L + 1)

\* C8: fold_instances returns, for every instance column c and position k,
\* acc.instances[c][k] * L_0(gamma) + sum over j = 1 .. L of incoming[j-1].instances[c][k] *
\* L_j(gamma), and the same combination for every challenge, with L_j the Lagrange basis
\* over the domain of L + 1 points.
C8_FoldInstances ==
    FoldCalled =>
        LET L == call.L
            domain == iter_cyclic_subgroup(ilog2(L + 1))
            gamma == gamma_powers[2]
            acc == accumulator.ins
            new == ret.value
        IN  /\ ret.status = "ok"
            /\ Len(new.instances) = Len(acc.instances)
            /\ Len(new.challenges) = Len(acc.challenges)
            /\ \A c \in 1 .. Len(acc.instances) :
                   /\ Len(new.instances[c]) = Len(acc.instances[c])
                   /\ \A k \in 1 .. Len(acc.instances[c]) :
                          new.instances[c][k] =
                              FoldSum([j \in 1 .. L + 1 |->
                                          IF j = 1 THEN acc.instances[c][k]
                                          ELSE incoming[j - 1].instances[c][k]],
                                      domain, gamma, L, 0)
            /\ \A r \in 1 .. Len(acc.challenges) :
                   new.challenges[r] =
                       FoldSum([j \in 1 .. L + 1 |->
                                   IF j = 1 THEN acc.challenges[r]
                                   ELSE incoming[j - 1].challenges[r]],
                               domain, gamma, L, 0)

\* three incoming instances with two challenges and an instance value each were folded at
\* gamma = 2, a point outside the domain {1, 8, 12, 5}, and the result differs from the
\* accumulator
C8_Witness ==
    /\ FoldCalled
    /\ call.L = 3
    /\ gamma_powers[2] = 2
    /\ ret.status = "ok"
    /\ Len(ret.value.challenges) = 2
    /\ Len(ret.value.instances[1]) = 1
    /\ ret.value.challenges[1] # accumulator.ins.challenges[1]
    /\ ret.value.instances[1][1] # accumulator.ins.instances[1][1]
    /\ incoming[1].challenges[1] # accumulator.ins.challenges[1]

---------------------------------------------------------------------------
\* input j of fold_instances: the accumulator's instance for j = 0, incoming[j - 1] otherwise
FoldInput(j) == IF j = 0 THEN accumulator.ins ELSE incoming[j]

\* C28: when gamma is the j-th element w^j of the Lagrange domain of L + 1 points,
\* fold_instances returns the instance values and the challenges of input j alone (the
\* accumulator for j = 0, incoming[j - 1] for j >= 1); for gamma = 1 they are the
\* accumulator's.
C28_FoldAtDomainPoint ==
    FoldCalled =>
        LET domain == iter_cyclic_subgroup(ilog2(call.L + 1))
            gamma == ValuePowers_value(gamma_powers)
        IN  /\ \A j \in 0 .. call.L :
                   gamma = domain[j + 1] =>
                       /\ ret.status = "ok"
                       /\ ret.value.instances = FoldInput(j).instances
                       /\ ret.value.challenges = FoldInput(j).challenges
            /\ gamma = 1 =>
                   /\ ret.value.instances = accumulator.ins.instances
                   /\ ret.value.challenges = accumulator.ins.challenges

\* three incoming instances were folded at gamma = 8, the element w^1 of the domain
\* {1, 8, 12, 5}: the result holds the values of incoming[0], which are not the accumulator's
C28_Witness ==
    /\ FoldCalled
    /\ call.L = 3
    /\ ValuePowers_value(gamma_powers) = 8
    /\ iter_cyclic_subgroup(2)[2] = 8
    /\ ret.status = "ok"
    /\ Len(ret.value.challenges) = 2
    /\ Len(ret.value.instances[1]) = 1
    /\ ret.value.challenges = incoming[1].challenges
    /\ ret.value.instances = incoming[1].instances
    /\ ret.value.challenges # accumulator.ins.challenges
    /\ ret.value.instances # accumulator.ins.instances

\* folded at gamma = 1 the three incoming instances leave the accumulator's values
FoldAtOne_Reached ==
    /\ FoldCalled
    /\ call.L = 3
    /\ ValuePowers_value(gamma_powers) = 1
    /\ Len(ret.value.challenges) = 2
    /\ ret.value.challenges = accumulator.ins.challenges
    /\ incoming[1].challenges # accumulator.ins.challenges

---------------------------------------------------------------------------

(* SpecVerify: the in-circuit verify step, stage by stage. Every stage that assigns cells *)
(* can fail with a Halo2PlonkError of the synthesizer; a panic of a callee ends the step. *)

otherThanVerify == <<polyVars, offVars, iter, yielded, kVars, traceVars>>

InitVerify ==
    /\ pc = "ready"
    /\ \E L \in 0 .. MaxL, num_challenges \in 0 .. MaxRounds, num_io \in 0 .. MaxIo,
          num_betas \in 0 .. MaxBetas, seed \in SeedSet, n \in 0 .. MaxCoeffs :
      \E m \in {0, n} :
          /\ vp = [pp_digest |-> 0]
          /\ accumulator = MkAccumulator(1, num_challenges, num_io, num_betas)
          /\ incoming = MkIncoming(seed, L, num_challenges, num_io)
          /\ proof = [poly_F |-> TakeValues(2, n), poly_K |-> TakeValues(2 + n, m)]
    /\ ro = <<>> /\ assigned_challenges = <<>>
    /\ poly_challenges = <<>> /\ betas_stroke = <<>>
    /\ iter = <<>> /\ yielded = <<>>
    /\ gamma_powers = <<>> /\ alpha_powers = <<>> /\ new_e = 0
    /\ call = [op |-> "verify", arg |-> 0, L |-> Len(incoming), len0 |-> 0]
    /\ ret = NoRet
    /\ IdlePoly /\ IdleOff /\ IdleK /\ IdleTrace

\* verify returning Err(Squeeze) whatever the stage
ReturnErr_Squeeze(variant) ==
    /\ pc' = "error"
    /\ ret' = [status |-> "Err", value |-> "Squeeze", muls |-> 0]

\* verify returns Err(variant): no later stage runs and no accumulator is returned
ReturnErr(variant) ==
    /\ pc' = "error"
    /\ ret' = [status |-> "Err", value |-> variant, muls |-> 0]

\* AssignedChallanges::generate(...).map_err(|err| Error::Squeeze { err })?
VerifyGenerate ==
    /\ pc = "ready"
    /\ \E fails \in BOOLEAN :
          IF fails
          THEN /\ ReturnErr("Squeeze")
               /\ UNCHANGED <<roVars>>
          ELSE LET r == AssignedChallanges_generate(<<>>, vp,
                            AssignedAccumulatorInstance_assign(accumulator),
                            [j \in 1 .. Len(incoming) |->
                                AssignedPlonkInstance_assign(incoming[j])],
                            proof)
               IN /\ ro' = r.ro
                  /\ assigned_challenges' =
                         [delta |-> r.delta, alpha |-> r.alpha, gamma |-> r.gamma]
                  /\ pc' = "generated"
                  /\ UNCHANGED ret
    /\ UNCHANGED <<call, proofVars, instanceVars, poly_challenges, betas_stroke,
                   otherThanVerify>>

\* calculate_betas_stroke(PolyChallenges { betas: accumulator.betas, alpha, delta })?
VerifyBetasStroke ==
    /\ pc = "generated"
    /\ poly_challenges' = [betas |-> AssignedAccumulatorInstance_assign(accumulator).betas,
                           alpha |-> assigned_challenges.alpha,
                           delta |-> assigned_challenges.delta]
    /\ \E fails \in {"no", "Deltas", "BetasStroke"} :
          IF fails # "no"
          THEN /\ ReturnErr(fails)
               /\ UNCHANGED betas_stroke
          ELSE /\ betas_stroke' = calculate_betas_stroke(poly_challenges')
               /\ pc' = IF betas_stroke'.status = "panic" THEN "panicked" ELSE "betas"
               /\ UNCHANGED ret
    /\ UNCHANGED <<call, proofVars, instanceVars, roVars, otherThanVerify>>

\* region.assign_advice(|| "one", ...) and the two ValuePowers::new
VerifyAssignOne ==
    /\ pc = "betas"
    /\ \E fails \in BOOLEAN :
          IF fails
          THEN /\ ReturnErr("Assign one")
               /\ UNCHANGED <<gamma_powers, alpha_powers>>
          ELSE /\ gamma_powers' = ValuePowers_new(1, assigned_challenges.gamma).powers
               /\ alpha_powers' = ValuePowers_new(1, assigned_challenges.alpha).powers
               /\ pc' = "one"
               /\ UNCHANGED ret
    /\ UNCHANGED <<call, proof, new_e, instanceVars, roVars, poly_challenges, betas_stroke,
                   otherThanVerify>>

\* calculate_e::<C::Base, T, L>(&proof, &mut gamma_powers, &mut alpha_powers)
\*     .map_err(|err| Error::WhileE { err })?
VerifyCalculateE ==
    /\ pc = "one"
    /\ \E fails \in BOOLEAN :
          IF fails
          THEN /\ ReturnErr("WhileE")
               /\ UNCHANGED <<gamma_powers, alpha_powers, new_e>>
          ELSE LET r == calculate_e(Len(incoming), proof, gamma_powers, alpha_powers)
               IN /\ gamma_powers' = r.gamma_powers
                  /\ alpha_powers' = r.alpha_powers
                  /\ new_e' = r.value
                  /\ IF r.status = "ok" THEN pc' = "e" /\ UNCHANGED ret
                     ELSE IF r.status = "panic"
                          THEN pc' = "panicked" /\ UNCHANGED ret
                          ELSE ReturnErr("WhileE")
    /\ UNCHANGED <<call, proof, instanceVars, roVars, poly_challenges, betas_stroke,
                   otherThanVerify>>

\* fold_instances(&accumulator.ins, incoming, &mut gamma_powers)
\*     .map_err(|err| Error::Fold { err })?;  Ok(AssignedAccumulatorInstance { ins, betas, e })
VerifyFold ==
    /\ pc = "e"
    /\ \E fails \in BOOLEAN :
          IF fails
          THEN /\ ReturnErr("Fold")
               /\ UNCHANGED gamma_powers
          ELSE LET r == fold_instances(Len(incoming),
                            AssignedPlonkInstance_assign(accumulator.ins),
                            [j \in 1 .. Len(incoming) |->
                                AssignedPlonkInstance_assign(incoming[j])],
                            gamma_powers)
               IN /\ gamma_powers' = r.powers
                  /\ IF r.status = "panic"
                     THEN pc' = "panicked" /\ UNCHANGED ret
                     ELSE /\ pc' = "done"
                          /\ ret' = [status |-> "Ok",
                                     value |-> [ins |-> r.value,
                                                betas |-> betas_stroke.value,
                                                e |-> new_e],
                                     muls |-> 0]
    /\ UNCHANGED <<call, proof, alpha_powers, new_e, instanceVars, roVars, poly_challenges,
                   betas_stroke, otherThanVerify>>

NextVerify ==
    \/ VerifyGenerate
    \/ VerifyBetasStroke
    \/ VerifyAssignOne
    \/ VerifyCalculateE
    \/ VerifyFold

SpecVerify == InitVerify /\ [][NextVerify]_vars

\* C9: after a successful verify step the W_commitments of the returned accumulator are the
\* W_commitments of the input accumulator, whatever the incoming instances and the proof.
C9_WCommitmentsKept ==
    (pc = "done") =>
        /\ ret.status = "Ok"
        /\ ret.value.ins.W_commitments = accumulator.ins.W_commitments
        /\ \A j \in 1 .. Len(incoming) :
               incoming[j].W_commitments # accumulator.ins.W_commitments =>
                   ret.value.ins.W_commitments # incoming[j].W_commitments

\* a verify step with one incoming instance whose two commitments differ from the
\* accumulator's has returned an accumulator
C9_Witness ==
    /\ pc = "done"
    /\ Len(incoming) = 1
    /\ Len(accumulator.ins.W_commitments) = 2
    /\ incoming[1].W_commitments # accumulator.ins.W_commitments
    /\ ret.value.ins.W_commitments = accumulator.ins.W_commitments
    /\ ret.value.ins.challenges # accumulator.ins.challenges

---------------------------------------------------------------------------
\* the stages of verify in their order, by the position before each, and the variants a
\* failure of the stage is annotated with
VerifyStages ==
    <<[at |-> "ready", then |-> "generated", errors |-> {"Squeeze"}],
      [at |-> "generated", then |-> "betas", errors |-> {"Deltas", "BetasStroke"}],
      [at |-> "betas", then |-> "one", errors |-> {"Assign one"}],
      [at |-> "one", then |-> "e", errors |-> {"WhileE"}],
      [at |-> "e", then |-> "done", errors |-> {"Fold"}]>>

\* the stage whose failure the variant annotates
StageOfError(variant) == CHOOSE i \in 1 .. Len(VerifyStages) : variant \in VerifyStages[i].errors

\* the stages that leave cells of their own behind: the challenges, the beta* values, the
\* two caches of powers
Assigning == {1, 2, 3}

\* stage i of the assigning stages has run: what it assigns is there
StageHasRun(i) ==
    CASE i = 1 -> assigned_challenges # <<>>
      [] i = 2 -> betas_stroke # <<>>
      [] i = 3 -> gamma_powers # <<>> /\ alpha_powers # <<>>

VerifyErrors_Reached(variant) == pc = "error" /\ ret.value = variant

VerifySqueeze_Reached == VerifyErrors_Reached("Squeeze")

VerifyDeltas_Reached == VerifyErrors_Reached("Deltas")

VerifyFold_Reached == VerifyErrors_Reached("Fold") /\ new_e # 0

---------------------------------------------------------------------------

(* SpecK: compute_K_from_G on a PolyContext with instances_to_fold a power of two: one   *)
(* sample of K for every point of the coset, in order, and then the coset_ifft of them.  *)

otherThanK == <<polyVars, proofVars, instanceVars, roVars, offVars, betaVars, traceVars>>

InitK ==
    /\ pc = "ready"
    /\ \E traces_len \in 0 .. MaxL, max_degree \in 0 .. MaxDegree :
          /\ ctx = PolyContext_new(max_degree, traces_len)
          /\ ctx.status = "ok"
          /\ fft_log_domain_size_K(ctx) <= MaxLogK
    /\ \E seed \in SeedSet : poly_G = TakeValues(seed, ctx.fft_points_count_G)
    /\ poly_F_in_alpha \in Field
    /\ poly_K_in_X = <<>>
    /\ call = [op |-> "compute_K_from_G", arg |-> 0, L |-> ctx.instances_to_fold - 1, len0 |-> 0]
    /\ ret = NoRet
    /\ IdlePoly /\ IdleProof /\ IdleInstance /\ IdleRo /\ IdleOff /\ IdleBeta /\ IdleTrace

\* the closure of compute_K_from_G on the next element of the cyclic subgroup
SampleK ==
    /\ pc = "ready"
    /\ Len(poly_K_in_X) < Pow2(fft_log_domain_size_K(ctx))
    /\ LET X0 == iter_cyclic_subgroup(fft_log_domain_size_K(ctx))[Len(poly_K_in_X) + 1]
           r == K_in_X(ctx, poly_G, poly_F_in_alpha, X0)
       IN IF r.status = "panic"
          THEN /\ pc' = "panicked"
               /\ UNCHANGED poly_K_in_X
          ELSE /\ poly_K_in_X' = Append(poly_K_in_X, r.value)
               /\ UNCHANGED pc
    /\ UNCHANGED <<call, ret, ctx, poly_G, poly_F_in_alpha, otherThanK>>

\* UnivariatePoly::coset_ifft(samples): the polynomial K returned
CosetIfft ==
    /\ pc = "ready"
    /\ Len(poly_K_in_X) = Pow2(fft_log_domain_size_K(ctx))
    /\ ret' = [status |-> "ok", value |-> coset_ifft(poly_K_in_X, fft_log_domain_size_K(ctx)),
               muls |-> 0]
    /\ pc' = "done"
    /\ UNCHANGED <<call, kVars, otherThanK>>

NextK == SampleK \/ CosetIfft

SpecK == InitK /\ [][NextK]_vars

---------------------------------------------------------------------------
(* SpecFG: a structure S, the accumulator's trace and the incoming traces; the context  *)
(* is built with PolyContext::new and then compute_F, compute_G or compute_K is run, in *)
(* a field whose cyclic subgroups hold the F-domain, the G-domain and the K-domain.     *)

otherThanFG == <<polyVars, proofVars, instanceVars, roVars, offVars, iter, yielded,
                 betas_stroke, poly_G, poly_F_in_alpha, poly_K_in_X>>

Gates == [degree : 1 .. MaxDegree, with_challenge : BOOLEAN]

\* structures of 2^k rows whose first gate is any gate and whose other gates are a - b
Structures ==
    {[k |-> k,
      gates |-> [i \in 1 .. g |-> IF i = 1 THEN first
                                  ELSE [degree |-> 1, with_challenge |-> FALSE]]] :
        k \in 0 .. MaxK, g \in 0 .. MaxGates, first \in Gates}

TraceKinds == {"zero", "satisfying", "random"}

\* a trace of the structure: all cells zero; cells that make the first gate vanish on every
\* row; or cells overwritten with values drawn from the seed, as the tests do at random
MkTrace(structure, kind, seed) ==
    LET rows == Pow2(structure.k)
        challenge == IF kind = "zero" THEN 0 ELSE (5 * seed + 2) % FieldP
        a(r) == (seed + 2 * r - 2) % FieldP
        b(r) == IF kind = "random" \/ Len(structure.gates) = 0 THEN (3 * seed + r + 1) % FieldP
                ELSE fadd(gate_eval(structure.gates[1], <<a(r), 0>>, <<challenge>>), 0)
    IN  [W |-> [r \in 1 .. rows |-> IF kind = "zero" THEN <<0, 0>> ELSE <<a(r), b(r)>>],
         challenges |-> <<challenge>>]

InitFG ==
    /\ pc = "ready"
    /\ S \in Structures
    /\ \E kind \in TraceKinds, seed \in SeedSet, L \in 0 .. MaxL, same \in BOOLEAN :
          /\ same = (kind = "zero") \/ kind = "satisfying"
          /\ acc_trace = MkTrace(S, kind, seed)
          /\ traces = [j \in 1 .. L |-> IF same THEN acc_trace ELSE MkTrace(S, kind, seed + j)]
          /\ \E delta \in CoeffSet :
                poly_challenges =
                    [betas |-> TakeValues(seed + 3,
                                          IF Len(S.gates) = 0 THEN 0 ELSE betas_count(S)),
                     alpha |-> (delta + 4) % FieldP,
                     delta |-> delta]
    /\ ctx = <<>>
    /\ poly_G = <<>> /\ poly_F_in_alpha = 0 /\ poly_K_in_X = <<>>
    /\ iter = <<>> /\ yielded = <<>> /\ betas_stroke = <<>>
    /\ call = NoCall
    /\ ret = NoRet
    /\ IdlePoly /\ IdleProof /\ IdleInstance /\ IdleRo /\ IdleOff

\* PolyContext::new(&S, &traces): unwraps the count of evaluations and asserts that
\* traces.len() + 1 is a power of two
PolyContextNew ==
    /\ pc = "ready"
    /\ ctx = <<>>
    /\ LET c == PolyContext_new(max_gate_degree(S), Len(traces))
       IN IF ~get_count_of_valuation_with_padding(S).some \/ c.status = "panic"
          THEN /\ pc' = "panicked"
               /\ UNCHANGED ctx
          ELSE /\ ctx' = c
               /\ UNCHANGED pc
    /\ call' = [op |-> "PolyContext::new", arg |-> 0, L |-> Len(traces), len0 |-> 0]
    /\ UNCHANGED <<ret, poly_challenges, traceVars, otherThanFG>>

\* compute_F(&ctx, betas, delta, &accumulator trace)
ComputeF ==
    /\ pc = "ready"
    /\ ctx # <<>>
    /\ ilog2(fft_points_count_F(S)) <= TwoAdicity
    /\ LET r == compute_F(S, poly_challenges.betas, poly_challenges.delta, acc_trace)
       IN /\ ret' = [status |-> r.status, value |-> r.value, muls |-> 0, height |-> r.height]
          /\ pc' = IF r.status = "panic" THEN "panicked" ELSE "done"
    /\ call' = [op |-> "compute_F", arg |-> 0, L |-> Len(traces), len0 |-> 0]
    /\ UNCHANGED <<ctx, poly_challenges, traceVars, otherThanFG>>

\* compute_G(&ctx, challenges.iter_beta_stroke(), &accumulator trace, &traces)
ComputeG ==
    /\ pc = "ready"
    /\ ctx # <<>>
    /\ fft_log_domain_size_G(ctx) <= TwoAdicity
    /\ LET r == compute_G(S, ctx, collect(iter_beta_stroke(poly_challenges)), acc_trace, traces)
       IN /\ ret' = r
          /\ pc' = IF r.status = "panic" THEN "panicked" ELSE "done"
    /\ call' = [op |-> "compute_G", arg |-> 0, L |-> Len(traces), len0 |-> 0]
    /\ UNCHANGED <<ctx, poly_challenges, traceVars, otherThanFG>>

\* compute_K(&ctx, poly_F_in_alpha, challenges.iter_beta_stroke(), &accumulator trace, &traces)
ComputeK ==
    /\ pc = "ready"
    /\ ctx # <<>>
    /\ fft_log_domain_size_G(ctx) <= TwoAdicity
    /\ fft_log_domain_size_K(ctx) <= TwoAdicity
    /\ \E F_in_alpha \in SeedSet :
          LET r == compute_K(S, ctx, F_in_alpha, collect(iter_beta_stroke(poly_challenges)),
                             acc_trace, traces)
          IN /\ ret' = r
             /\ pc' = IF r.status = "panic" THEN "panicked" ELSE "done"
             /\ call' = [op |-> "compute_K", arg |-> F_in_alpha, L |-> Len(traces), len0 |-> 0]
    /\ UNCHANGED <<ctx, poly_challenges, traceVars, otherThanFG>>

\* PolyContext::get_lagrange_domain::<TRACES_LEN>() for the number of incoming traces
GetLagrangeDomain ==
    /\ pc = "ready"
    /\ ctx = <<>>
    /\ LET r == get_lagrange_domain(Len(traces))
       IN /\ ret' = [status |-> r.status, value |-> r.value, muls |-> 0]
          /\ pc' = IF r.status = "panic" THEN "panicked" ELSE "done"
    /\ call' = [op |-> "get_lagrange_domain", arg |-> 0, L |-> Len(traces), len0 |-> 0]
    /\ UNCHANGED <<ctx, poly_challenges, traceVars, otherThanFG>>

NextFG == PolyContextNew \/ GetLagrangeDomain \/ ComputeF \/ ComputeG \/ ComputeK

SpecFG == InitFG /\ [][NextFG]_vars

RECURSIVE pow_i(_, _, _)
\* the product of the entries challenge_vector[j] selected by the set bits j of i (entry j,
\* 0-based, is challenge_vector[j + 1]), from bit j on
pow_i(i, challenge_vector, j) ==
    IF i = 0 \/ j >= Len(challenge_vector) THEN 1
    ELSE fmul(IF i % 2 = 1 THEN challenge_vector[j + 1] ELSE 1,
              pow_i(i \div 2, challenge_vector, j + 1))

RECURSIVE SumPowF(_, _, _)
\* sum over i < n of pow_i(challenge_vector) * f_i
SumPowF(evals, challenge_vector, n) ==
    IF n = 0 THEN 0
    ELSE fadd(SumPowF(evals, challenge_vector, n - 1),
              fmul(pow_i(n - 1, challenge_vector, 0), evals[n]))

\* F(X) by its definition: the sum over i of pow_i(beta + X * delta) * f_i
DirectF(X) ==
    LET betas == poly_challenges.betas
        challenge_vector ==
            [j \in 1 .. Len(betas) |->
                fadd(betas[j], fmul(X, fpow(poly_challenges.delta, Pow2(j - 1))))]
        evals == iter_evaluate_witness(S, acc_trace)
    IN  SumPowF(evals, challenge_vector, Len(evals))

\* C11: for any gate-evaluation sequence, any betas of length log2 N and any delta, the
\* polynomial returned by compute_F takes the value sum_i pow_i(beta + X * delta) * f_i at
\* every field point X, inside and outside the F-domain.
C11_ComputeF ==
    (call.op = "compute_F") =>
        /\ ret.status = "ok"
        /\ \A X \in Field : UnivariatePoly_eval(ret.value, X) = DirectF(X)

\* whenever compute_F returns a polynomial it is the polynomial of the definition, of
\* F-domain size, and it returns one whenever there are at least two padded evaluations
ComputeF_ValueWhenOk ==
    (call.op = "compute_F") =>
        /\ ret.status = "ok" =>
               /\ Len(ret.value) = fft_points_count_F(S)
               /\ \A X \in Field : UnivariatePoly_eval(ret.value, X) = DirectF(X)
        /\ get_count_of_valuation_with_padding(S).value >= 2 => ret.status = "ok"

\* beta*_j = beta_j + alpha * delta^(2^j), by its definition
DirectBetasStroke ==
    [j \in 1 .. Len(poly_challenges.betas) |->
        fadd(poly_challenges.betas[j],
             fmul(poly_challenges.alpha, fpow(poly_challenges.delta, Pow2(j - 1))))]

\* the folded witness at X by the product form of the Lagrange basis over the domain of
\* Len(traces) + 1 points: sum_j L_j(X) * w_j, the accumulator being w_0
DirectFolded(X) ==
    LET all == <<acc_trace>> \o traces
        n == Len(all)
        domain == iter_cyclic_subgroup(ilog2(n))
        L == [j \in 1 .. n |-> LagrangeProduct(domain, j - 1, X, n)]
    IN  [W |-> [r \in 1 .. Len(acc_trace.W) |->
                   [col \in 1 .. Len(acc_trace.W[r]) |->
                       lagrange_sum(L, [j \in 1 .. Len(all) |-> all[j].W[r][col]], n)]],
         challenges |-> [ch \in 1 .. Len(acc_trace.challenges) |->
                            lagrange_sum(L, [j \in 1 .. Len(all) |-> all[j].challenges[ch]], n)]]

\* G(X) by its definition: the sum over i of pow_i(beta*) * f_i(folded witness at X)
DirectG(X) ==
    LET evals == iter_evaluate_witness(S, DirectFolded(X))
    IN  SumPowF(evals, DirectBetasStroke, Len(evals))

\* the G-domain: the cyclic subgroup of fft_points_count_G points
GDomain == iter_cyclic_subgroup(ilog2(ctx.fft_points_count_G))

\* compute_G was run on at least one incoming trace
ComputeGCalled == call.op = "compute_G" /\ Len(traces) >= 1

\* C12: for L >= 1 incoming traces with L + 1 a power of two, the polynomial returned by
\* compute_G takes at every point X of the G-domain the value
\* sum_i pow_i(beta*) * f_i(folded witness at X).
C12_ComputeG ==
    ComputeGCalled =>
        /\ ret.status = "ok"
        /\ Len(ret.value) = ctx.fft_points_count_G
        /\ \A x \in 1 .. Len(GDomain) :
               UnivariatePoly_eval(ret.value, GDomain[x]) = DirectG(GDomain[x])

\* compute_G returned G for three incoming random traces over a structure of two rows and
\* two gates, a G that is not constant
C12_Witness ==
    /\ ComputeGCalled
    /\ ret.status = "ok"
    /\ Len(traces) = 3
    /\ S.k = 1 /\ Len(S.gates) = 2
    /\ traces[1] # acc_trace
    /\ Len(ret.value) = 4
    /\ ret.value[2] # 0

\* every gate evaluation of the trace is zero
AllGatesZero(trace) ==
    \A i \in 1 .. Pow2(S.k) * Len(S.gates) : iter_evaluate_witness(S, trace)[i] = 0

\* C13: if every gate evaluation of the trace is zero (the witness satisfies the circuit),
\* every coefficient of the polynomial returned by compute_F is zero.
C13_ZeroF ==
    (call.op = "compute_F" /\ ret.status = "ok" /\ AllGatesZero(acc_trace)) =>
        \A i \in 1 .. Len(ret.value) : ret.value[i] = 0

\* compute_F returned the four zero coefficients of F for a witness that is not zero and
\* satisfies both gates on both rows, with delta = 5
C13_Witness ==
    /\ call.op = "compute_F"
    /\ ret.status = "ok"
    /\ AllGatesZero(acc_trace)
    /\ S.k = 1 /\ Len(S.gates) = 2
    /\ acc_trace.W[1][1] # 0 /\ acc_trace.W[2][1] # 0
    /\ poly_challenges.delta = 5
    /\ ret.value = <<0, 0, 0, 0>>

\* for a witness that does not satisfy the circuit F is not the zero polynomial: with one
\* non-zero evaluation f_i, F(0) = sum_i pow_i(beta) * f_i
NonZeroF_Reached ==
    /\ call.op = "compute_F"
    /\ ret.status = "ok"
    /\ ~AllGatesZero(acc_trace)
    /\ \E i \in 1 .. Len(ret.value) : ret.value[i] # 0

\* C14: if the accumulator's trace is the single incoming trace and that trace makes every
\* gate zero, every coefficient of the polynomial returned by compute_G is zero.
C14_ZeroG ==
    (/\ call.op = "compute_G"
     /\ Len(traces) = 1
     /\ traces[1] = acc_trace
     /\ AllGatesZero(acc_trace)) =>
        /\ ret.status = "ok"
        /\ \A i \in 1 .. Len(ret.value) : ret.value[i] = 0

\* compute_G returned the four zero coefficients of G for one incoming trace, the trace of
\* the accumulator, which is not zero and satisfies the gate a^2 - b on both rows
C14_Witness ==
    /\ call.op = "compute_G"
    /\ Len(traces) = 1
    /\ traces[1] = acc_trace
    /\ AllGatesZero(acc_trace)
    /\ S.k = 1
    /\ S.gates = <<[degree |-> 2, with_challenge |-> FALSE]>>
    /\ acc_trace.W[1][1] # 0 /\ acc_trace.W[2][2] # 0
    /\ ret.status = "ok"
    /\ ret.value = <<0, 0, 0, 0>>

\* for one incoming trace that does not satisfy the circuit G is not the zero polynomial
NonZeroG_Reached ==
    /\ call.op = "compute_G"
    /\ Len(traces) = 1
    /\ traces[1] = acc_trace
    /\ ~AllGatesZero(acc_trace)
    /\ ret.status = "ok"
    /\ \E i \in 1 .. Len(ret.value) : ret.value[i] # 0

\* compute_G or compute_K was run
ComputeGKCalled == call.op \in {"compute_G", "compute_K"}

\* C16: when the slice of incoming traces is empty, compute_G, and compute_K through it,
\* return Err(EmptyTracesNotAllowed) with no item taken from the betas_stroke iterator and
\* no witness evaluated; with incoming traces they do not return that error.
C16_EmptyTraces ==
    ComputeGKCalled =>
        IF Len(traces) = 0
        THEN /\ ret.status = "Err"
             /\ ret.value = "EmptyTracesNotAllowed"
             /\ ret.consumed = 0
             /\ ret.evaluated = 0
        ELSE ret.status # "Err"

\* compute_K returned the error for no incoming trace, a structure of two rows and two gates
\* (two betas to take) and an accumulator trace that is not zero
C16_Witness ==
    /\ call.op = "compute_K"
    /\ Len(traces) = 0
    /\ S.k = 1 /\ Len(S.gates) = 2
    /\ Len(poly_challenges.betas) = 2
    /\ acc_trace.W[1][1] # 0
    /\ ret.status = "Err"
    /\ ret.value = "EmptyTracesNotAllowed"

\* compute_G returned the error as well
EmptyTracesG_Reached ==
    /\ call.op = "compute_G"
    /\ Len(traces) = 0
    /\ ret.status = "Err"

\* n is 2^e for some e
IsPowerOfTwo(n) == \E e \in 0 .. n : Pow2(e) = n

LagrangeDomainAccepted_Reached ==
    /\ call.op = "PolyContext::new"
    /\ Len(traces) = 3
    /\ pc = "ready"
    /\ lagrange_domain(ctx) = 2
    /\ get_lagrange_domain(3) = [status |-> "ok", value |-> 2]

\* get_lagrange_domain::<2>() panicked
LagrangeDomainRejected_Reached ==
    /\ call.op = "get_lagrange_domain"
    /\ Len(traces) = 2
    /\ pc = "panicked"

---------------------------------------------------------------------------
\* C22: for every structure with at least one gate and any k >= 0, compute_F given at least
\* beta_count beta values returns Ok with a polynomial of exactly F-domain-size
\* = next_pow2(beta_count + 1) coefficients.
C22_ComputeFLength ==
    (/\ call.op = "compute_F"
     /\ Len(S.gates) >= 1
     /\ Len(poly_challenges.betas) >= betas_count(S)) =>
        /\ ret.status = "ok"
        /\ Len(ret.value) = fft_points_count_F(S)

\* compute_F panicked on the structure of one row and one gate: one padded evaluation, no
\* beta, an F-domain of one point
ComputeFOneEvaluation_Reached ==
    /\ call.op = "compute_F"
    /\ S.k = 0 /\ Len(S.gates) = 1
    /\ betas_count(S) = 0
    /\ fft_points_count_F(S) = 1
    /\ ret.status = "panic"

\* compute_F returned four coefficients for a structure of two rows and two gates
ComputeFFourCoefficients_Reached ==
    /\ call.op = "compute_F"
    /\ S.k = 1 /\ Len(S.gates) = 2
    /\ ret.status = "ok"
    /\ Len(ret.value) = 4

\* the padded number N of evaluations of the structure
PaddedCount == get_count_of_valuation_with_padding(S).value

\* C26: in the tree reductions of compute_F and compute_G over the N leaves (N a power of
\* two by the padding with zeros) every combine receives two children of one height, so
\* the unreachable!() of unequal heights is not reached and the reduction ends with a node
\* of height log2 N = beta_count: the weight index of a combine, the height of its
\* children, is at most beta_count - 1; and a combine adds the left child unscaled to the
\* right child times the weight.
C26_BalancedTree ==
    /\ (call.op = "compute_F" /\ PaddedCount >= 2) =>
           /\ ret.status = "ok"
           /\ ret.height = betas_count(S)
           /\ Pow2(ret.height) = PaddedCount
    /\ (call.op = "compute_G" /\ Len(traces) > 0) =>
           /\ ret.status = "ok"
           /\ ret.height = betas_count(S)
           /\ Pow2(ret.height) = PaddedCount
    /\ call.op \in {"compute_F", "compute_G"} =>
           LET left == acc_trace.W[1][1]
               right == acc_trace.W[1][2]
               weight == poly_challenges.delta
           IN  /\ combine_F(<<<<weight>>>>, Leaf(left), Leaf(right)) =
                      Calculated(<<fadd(left, fmul(right, weight))>>, 1)
               /\ combine_G(<<weight>>, Node(<<left>>, 0), Node(<<right>>, 0)) =
                      Node(<<fadd(left, fmul(right, weight))>>, 1)
               /\ combine_F(<<<<weight>>>>, Leaf(left), Calculated(<<right>>, 1)).status = "panic"
               /\ combine_G(<<weight>>, Node(<<left>>, 0), Node(<<right>>, 1)).status = "panic"

\* compute_F reduced the four evaluations of a structure of two rows and two gates, not
\* all of them zero, to a node of height two
C26_Witness ==
    /\ call.op = "compute_F"
    /\ S.k = 1 /\ Len(S.gates) = 2
    /\ PaddedCount = 4
    /\ ~AllGatesZero(acc_trace)
    /\ ret.status = "ok"
    /\ ret.height = 2
    /\ \E i \in 1 .. Len(ret.value) : ret.value[i] # 0

\* compute_G reduced four evaluations to a node of height two
ComputeGHeightTwo_Reached ==
    /\ call.op = "compute_G"
    /\ PaddedCount = 4
    /\ ret.status = "ok"
    /\ ret.height = 2

\* the K-domain of the context: next_pow2(G-domain + 1 - instances_to_fold) points
KDomainSize == next_power_of_two(saturating_sub(ctx.fft_points_count_G + 1, ctx.instances_to_fold))

\* C21: the polynomial returned by compute_K / compute_K_from_G has exactly K-domain-size
\* = next_pow2(G-domain size + 1 - instances_to_fold) coefficients.
C21_KLength ==
    (call.op = "compute_K" /\ ret.status = "ok") => Len(ret.value) = KDomainSize

\* what compute_K returns has 2^(K-domain size) coefficients: fft_log_domain_size_K returns
\* the size and iter_cyclic_subgroup takes it for the logarithm of the size
ComputeK_LengthWhenOk ==
    (call.op = "compute_K" /\ ret.status = "ok") => Len(ret.value) = Pow2(KDomainSize)

\* compute_K returned two coefficients, not all zero, for a K-domain of one point
KOfTwoCoefficients_Reached ==
    /\ call.op = "compute_K"
    /\ ret.status = "ok"
    /\ KDomainSize = 1
    /\ Len(ret.value) = 2
    /\ ret.value # <<0, 0>>

---------------------------------------------------------------------------

(* SpecAcc: an accumulator is created with Accumulator::new for a structure S of one gate *)
(* by a caller that passes the number of betas, and is then taken through the stages of   *)
(* a verify step.                                                                         *)

InitAcc ==
    /\ pc = "new"
    /\ S \in {st \in Structures : Len(st.gates) = 1}
    /\ acc_trace = <<>> /\ traces = <<>>
    /\ accumulator = <<>>
    /\ vp = [pp_digest |-> 0]
    /\ \E L \in 0 .. MaxL, num_challenges \in {0, MaxRounds}, n, m \in {2, MaxCoeffs} :
          /\ incoming = MkIncoming(5, L, num_challenges, MaxIo)
          /\ proof = [poly_F |-> TakeValues(2, n), poly_K |-> TakeValues(2 + n, m)]
    /\ ro = <<>> /\ assigned_challenges = <<>>
    /\ poly_challenges = <<>> /\ betas_stroke = <<>>
    /\ iter = <<>> /\ yielded = <<>>
    /\ gamma_powers = <<>> /\ alpha_powers = <<>> /\ new_e = 0
    /\ call = NoCall
    /\ ret = NoRet
    /\ IdlePoly /\ IdleOff /\ IdleK

\* Accumulator::new(args, count_of_evaluation), the argument being the caller's: the number
\* of betas of S, or the count of evaluations the parameter is named after
AccumulatorNew ==
    /\ pc = "new"
    /\ \E count_of_evaluation \in {betas_count(S),
                                   get_count_of_valuation_with_padding(S).value} :
          /\ accumulator' =
                 Accumulator_new([num_challenges |-> IF Len(incoming) = 0 THEN MaxRounds
                                                     ELSE Len(incoming[1].challenges),
                                  num_io |-> MaxIo],
                                 count_of_evaluation)
          /\ call' = [op |-> "Accumulator::new", arg |-> count_of_evaluation,
                      L |-> Len(incoming), len0 |-> 0]
    /\ pc' = "ready"
    /\ UNCHANGED <<ret, vp, incoming, proofVars, roVars, poly_challenges, betas_stroke,
                   otherThanVerify>>

NextAcc == AccumulatorNew \/ NextVerify

SpecAcc == InitAcc /\ [][NextAcc]_vars

\* the accumulator exists
AccumulatorCreated == pc # "new"

BetasOfCountOfEvaluation_Reached ==
    /\ pc = "done"
    /\ betas_count(S) = 1
    /\ call.arg = 2
    /\ Len(ret.value.betas) = 2

\* the lengths of the proof that S and the number of incoming instances fix: the F-domain
\* size next_pow2(beta_count + 1) and the K-domain size next_pow2(G-domain + 1 - (L + 1))
ProofLengthsOfContext ==
    LET c == PolyContext_new(max_gate_degree(S), Len(incoming))
    IN  /\ Len(proof.poly_F) = fft_points_count_F(S)
        /\ Len(proof.poly_K) = fft_log_domain_size_K(c)

\* C19: the verifier checks that poly_F has F-domain-size coefficients and poly_K has
\* K-domain-size coefficients: a verify step that returns a new accumulator was given a
\* proof of exactly these lengths, a proof of any other length being rejected.
C19_ProofLengthsChecked ==
    (pc = "done") => ProofLengthsOfContext

\* a verify step returned a new accumulator for a proof of the lengths of the context
ProofOfContextLengths_Reached == pc = "done" /\ ProofLengthsOfContext

\* a verify step returned a new accumulator for a poly_F of four coefficients where the
\* F-domain has two points
ProofOfOtherLengths_Reached ==
    /\ pc = "done"
    /\ fft_points_count_F(S) = 2
    /\ Len(proof.poly_F) = 4
    /\ ret.status = "Ok"

---------------------------------------------------------------------------
(* Claims on the vanishing polynomial (SpecLagrange) *)

RECURSIVE RepeatedProduct(_, _)
\* x * x * ... * x, n factors
RepeatedProduct(x, n) == IF n = 0 THEN 1 ELSE (x * RepeatedProduct(x, n - 1)) % FieldP

\* the call was eval_vanish_polynomial
VanishCalled == call.op = "eval_vanish_polynomial"

VanishDegreeZero_Reached ==
    /\ VanishCalled
    /\ call.arg = 0
    /\ challenge_powers[2] = 5
    /\ ret.value = 0

---------------------------------------------------------------------------
(* SpecSps: sps_verify on a PlonkInstance made by a conforming prover, with some of its   *)
(* challenges or one of its commitments changed afterwards, and a random oracle that is   *)
(* fresh or has absorbed one point.                                                      *)

otherThanSps == <<polyVars, proofVars, betaVars, kVars, traceVars, vp, accumulator,
                  off_challenges>>

\* the instance of a conforming prover for the oracle ro_nark
SpsInstance(ro_nark, W_commitments, instances) ==
    [W_commitments |-> W_commitments,
     instances |-> instances,
     challenges |->
         sps_challenges(W_commitments,
                        absorb_iter(ro_nark, FieldItems(Flatten(instances))), 0)]

InitSps ==
    /\ pc = "ready"
    /\ \E seed \in SeedSet, num_challenges \in 0 .. MaxRounds, num_io \in 0 .. MaxIo,
          prefix \in {<<>>, <<PointItem(1)>>} :
          /\ ro_off = prefix
          /\ ro = prefix
          /\ \E changed \in SUBSET (1 .. num_challenges), moved \in 0 .. num_challenges :
                LET conforming == SpsInstance(prefix, TakeValues(seed, num_challenges),
                                              <<TakeValues(seed + num_challenges, num_io)>>)
                IN  incoming =
                        <<[W_commitments |->
                               [i \in 1 .. num_challenges |->
                                   IF i = moved THEN (conforming.W_commitments[i] + 1) % FieldP
                                   ELSE conforming.W_commitments[i]],
                           instances |-> conforming.instances,
                           challenges |->
                               [i \in 1 .. num_challenges |->
                                   IF i \in changed THEN (conforming.challenges[i] + 1) % FieldP
                                   ELSE conforming.challenges[i]]]>>
    /\ vp = <<>> /\ accumulator = <<>> /\ off_challenges = <<>>
    /\ call = NoCall
    /\ ret = NoRet
    /\ assigned_challenges = <<>>
    /\ IdlePoly /\ IdleProof /\ IdleBeta /\ IdleK /\ IdleTrace

\* incoming.sps_verify(&mut ro_nark)
SpsVerify ==
    /\ pc = "ready"
    /\ LET r == sps_verify(incoming[1], ro_off)
       IN /\ ret' = [status |-> r.status, value |-> r.value, muls |-> 0,
                     challenge_index |-> r.challenge_index]
          /\ ro_off' = r.ro
          /\ pc' = IF r.status = "panic" THEN "panicked" ELSE "done"
    /\ call' = [op |-> "sps_verify", arg |-> 0, L |-> 0, len0 |-> Len(ro_off)]
    /\ UNCHANGED <<incoming, roVars, otherThanSps>>

\* verify_sps(region, &mut ro_circuit, &[incoming]) on the assigned instance, the oracle of
\* the circuit in the state of ro_nark; the cells it constrains equal are kept
VerifySps ==
    /\ assigned_challenges = <<>>
    /\ LET r == verify_sps(<<AssignedPlonkInstance_assign(incoming[1])>>, ro, 1, <<>>)
       IN /\ ro' = r.ro
          /\ assigned_challenges' = [status |-> r.status, constraints |-> r.constraints]
    /\ UNCHANGED <<pc, call, ret, incoming, ro_off, otherThanSps>>

NextSps == SpsVerify \/ VerifySps

SpecSps == InitSps /\ [][NextSps]_vars

\* the oracle when round i (1-based) is squeezed: what it held before the call, the instance
\* values, and the commitments of the rounds 1 .. i with a squeeze after each but the last
SpsTranscript(i) ==
    LET instance == incoming[1]
        before == SubSeq(ro_off, 1, call.len0)
        rounds == Flatten([j \in 1 .. i |->
                              IF j < i THEN <<PointItem(instance.W_commitments[j]), SqueezeItem>>
                              ELSE <<PointItem(instance.W_commitments[j])>>])
    IN  before \o FieldItems(Flatten(instance.instances)) \o rounds

\* round i (1-based) matches: the NUM_CHALLENGE_BITS low bits of the sponge output equal the
\* challenge of the round
SpsMatch(i) ==
    ro_digest(SpsTranscript(i), Len(SpsTranscript(i))) % Pow2(NUM_CHALLENGE_BITS)
        = incoming[1].challenges[i]

\* sps_verify was run on an instance with at least one challenge
SpsCalled == call.op = "sps_verify" /\ Len(incoming[1].challenges) >= 1

\* C15: on an instance with n >= 1 challenges sps_verify returns Ok exactly when every round
\* matches, the value squeezed (truncated to NUM_CHALLENGE_BITS) after the instance values
\* and W_commitments[0..=i] being challenges[i]; otherwise it returns ChallengeNotMatch with
\* the smallest mismatching round, and no later round is absorbed or squeezed.
C15_SpsVerify ==
    SpsCalled =>
        LET n == Len(incoming[1].challenges)
            mismatches == {i \in 1 .. n : ~SpsMatch(i)}
        IN  IF mismatches = {}
            THEN /\ ret.status = "Ok"
                 /\ ro_off = Append(SpsTranscript(n), SqueezeItem)
            ELSE LET first == CHOOSE i \in mismatches : \A j \in mismatches : i <= j
                 IN  /\ ret.status = "Err"
                     /\ ret.value = "ChallengeNotMatch"
                     /\ ret.challenge_index = first - 1
                     /\ ro_off = Append(SpsTranscript(first), SqueezeItem)

\* with two challenges of which the second was changed, sps_verify returned
\* ChallengeNotMatch { challenge_index: 1 } after absorbing both commitments
C15_Witness ==
    /\ SpsCalled
    /\ Len(incoming[1].challenges) = 2
    /\ SpsMatch(1) /\ ~SpsMatch(2)
    /\ ret.status = "Err"
    /\ ret.challenge_index = 1
    /\ Len(incoming[1].instances[1]) = 1
    /\ Len(ro_off) = call.len0 + 5

\* with the first of two challenges changed, the second commitment is not absorbed
SpsFirstMismatch_Reached ==
    /\ SpsCalled
    /\ Len(incoming[1].challenges) = 2
    /\ ~SpsMatch(1)
    /\ ret.status = "Err"
    /\ ret.challenge_index = 0
    /\ Len(ro_off) = call.len0 + Len(incoming[1].instances[1]) + 2

\* the instance of a conforming prover with two challenges passes
SpsOk_Reached ==
    /\ SpsCalled
    /\ Len(incoming[1].challenges) = 2
    /\ ret.status = "Ok"

\* without challenges sps_verify returns Ok and leaves the oracle as it was
SpsNoChallenges ==
    (call.op = "sps_verify" /\ Len(incoming[1].challenges) = 0) =>
        ret.status = "Ok" /\ Len(ro_off) = call.len0

\* both verifiers were run on the instance, from the same oracle state
BothSpsRun == call.op = "sps_verify" /\ assigned_challenges # <<>>

\* C30: for an incoming instance with challenges the in-circuit verify_sps performs the
\* transcript schedule of the off-circuit sps_verify started from the same oracle state
\* (all instance values absorbed, then per round W_commitments[i] absorbed, a squeeze of the
\* same kind, the comparison with challenges[i]), and an instance with no challenges is
\* skipped without absorbing anything on either side; stated for the instances sps_verify
\* accepts, on which it runs every round.
C30_SpsSchedule ==
    (BothSpsRun /\ ret.status = "Ok") =>
        /\ ro = ro_off
        /\ assigned_challenges.status = "Ok"
        /\ Len(assigned_challenges.constraints) = Len(incoming[1].challenges)
        /\ \A i \in 1 .. Len(incoming[1].challenges) :
               LET round == assigned_challenges.constraints[i]
               IN  /\ round.expected = squeeze_bits(SpsTranscript(i), NUM_CHALLENGE_BITS).value
                   /\ round.expected = round.challenge
        /\ Len(incoming[1].challenges) = 0 => ro = SubSeq(ro_off, 1, call.len0)

\* what the two verifiers do share: on an accepted instance the same items are absorbed
\* and the squeezes fall at the same places, an instance without challenges leaves both
\* oracles as they were, and the in-circuit cell of round i is the whole sponge output
VerifySps_SameAbsorptions ==
    BothSpsRun =>
        /\ ret.status = "Ok" => ro = ro_off
        /\ Len(incoming[1].challenges) = 0 =>
               /\ ro = SubSeq(ro_off, 1, call.len0)
               /\ ro_off = SubSeq(ro_off, 1, call.len0)
               /\ assigned_challenges.constraints = <<>>
        /\ assigned_challenges.status = "Ok"
        /\ \A i \in 1 .. Len(assigned_challenges.constraints) :
               assigned_challenges.constraints[i].expected =
                   ro_digest(SpsTranscript(i), Len(SpsTranscript(i)))

\* the instance of a conforming prover with two challenges passes sps_verify, and a cell
\* that verify_sps constrains equal to a challenge holds another value
SpsAcceptedCircuitUnsatisfied_Reached ==
    /\ BothSpsRun
    /\ Len(incoming[1].challenges) = 2
    /\ ret.status = "Ok"
    /\ \E i \in 1 .. 2 :
          assigned_challenges.constraints[i].expected #
              assigned_challenges.constraints[i].challenge

\* an instance on which both verifiers agree: every in-circuit cell equals its challenge
SpsAcceptedCircuitSatisfied_Reached ==
    /\ BothSpsRun
    /\ Len(incoming[1].challenges) >= 1
    /\ ret.status = "Ok"
    /\ \A i \in 1 .. Len(incoming[1].challenges) :
          assigned_challenges.constraints[i].expected =
              assigned_challenges.constraints[i].challenge

====
